---- MODULE Spec2Model ----
(***************************************************************************)
(* kraken-bot: the rate limiter (waitForRateLimit), the trade-history      *)
(* synchronizer (fetchAllTradeHistory, fetchNewTrades,                     *)
(* fetchFullTradeHistory) and the FIFO cost-basis replay (buildCostBasis)  *)
(* of src/unnamed/part_001, the persistence helpers of                     *)
(* src/unnamed/part_000 and the callers of src/index.js.                   *)
(*                                                                         *)
(* The specifications share the variables:                                 *)
(*   Spec      the sync cycles of the host's callbacks against the ledger  *)
(*   SpecIncr  the trade timer's incremental syncs, longer remote history  *)
(*   SpecAmend the startup backfill against an exchange amending records   *)
(*   SpecRate  concurrent callers of waitForRateLimit under a clock        *)
(*   SpecLive  one caller of waitForRateLimit while time advances          *)
(*   SpecCB    buildCostBasis replaying a ledger drawn from bounded sets   *)
(*   SpecSell  one sell replayed on a cost basis buildCostBasis has built  *)
(*   SpecOver  one caller of waitForRateLimit with costs above maxCounter  *)
(*   SpecAnalytics  buildCostBasis and its analytics on longer ledgers     *)
(*   SpecBad   buildCostBasis on a ledger holding a record without pair    *)
(*   SpecDisk  the trade timer's syncs on a disk that fails and recovers   *)
(*   SpecLoad  loadAllState on files that are missing, corrupt or saved    *)
(*   SpecZero  buildCostBasis on ledgers with records of volume 0          *)
(*   SpecExec  executeCommands on one BUY / SELL command, with open orders *)
(*                                                                         *)
(* Numbers: volumes, prices and costs are integers (the source parses      *)
(* decimal strings into doubles; the model has no rounding error).         *)
(***************************************************************************)
EXTENDS Integers, Sequences, FiniteSets, TLC

\* ------------------------------------------------------------------ bounds
\* Trades the exchange holds at most.
MaxRemote == 5
\* Trades the exchange holds at most in SpecIncr.
MaxRemoteLong == 7
\* Records the exchange amends at most.
MaxAmended == 1
\* Page size P of TradesHistory: 50 in the source (part_001:335,337,385,386),
\* scaled down so that multi-page histories stay small.
PageSize == 2
\* Records of a ledger handed to buildCostBasis at most.
MaxLen == 3
\* Rebuilds of the cost basis over one ledger at most.
MaxRebuilds == 2
\* The clock of the rate limiter stops here (ms).
MaxClock == 9000
\* The clock of the rate limiter advances in steps of this many ms.
TickMs == 500
\* AddOrder / CancelOrder requests at most.
MaxOrders == 1
\* The displayed trades: 50 in the source (part_001:511), scaled down so that a
\* ledger of MaxLen records can hold more sells than the window.
DisplayCount == 2
\* Records of a ledger of SpecAnalytics at most.
MaxLenAnalytics == 4
\* Records of a ledger saved by an earlier run at most, in SpecLoad.
MaxLenLoad == 1
\* The 7-day window: 7 * 24 * 60 * 60 * 1000 ms in the source (part_001:481),
\* scaled down to the times of the ledgers of SpecCB.
WeekMs == 1000

\* The host's callbacks that start a sync: the background backfill of init
\* (index.js:76) and the five-minute trade timer / refreshAll (index.js:121,
\* part_001:725).
Procs == {"startup", "timer"}

Pairs == {"XXBTZEUR", "XETHZEUR"}

\* The callers of waitForRateLimit and their costs: fetchBalance (1),
\* fetchOrders (1), fetchNewTrades / fetchFullTradeHistory (2).
RateCallers == {"balance", "orders", "trades"}

\* A caller with no reserve under way.
NoReserve == [cost |-> 0, paid |-> 0, slept |-> FALSE]

\* No sell replayed.
NoSellCase == [before |-> <<>>, trade |-> <<>>, match |-> <<>>, after |-> <<>>,
               done |-> FALSE]

\* executeCommands not called yet.
NoExec == [pc |-> "none"]

Min(a, b) == IF a < b THEN a ELSE b
Max(a, b) == IF a > b THEN a ELSE b

VARIABLES
  \* the exchange
  remote,            \* number of trades in the remote history; ids 1..remote, id order = time order
  now,               \* Date.now(): a clock that has advanced at every reading
  fsOk,              \* whether writeFileSync currently succeeds
  \* state (part_000:21-54)
  trades,            \* state.fullTradeHistory.trades, in key insertion order
  totalCount,        \* state.fullTradeHistory.totalCount
  lastFetchTime,     \* state.fullTradeHistory.lastFetchTime (0 = null)
  costBasis,         \* state.costBasis
  recentTrades,      \* state.trades
  fileTradeHistory,  \* data/full_trade_history.json
  fileCostBasis,     \* data/cost_basis.json
  tradeAnalytics,    \* state.tradeAnalytics
  fileAnalytics,     \* data/trade_analytics.json
  \* locals of the sync in flight of each callback
  pc, kind, offset, newTradesCount, hitExisting, hasMore,
  \* history of the sync in flight of each callback
  log,               \* the page fetches it made: [ofs, error, count, newInPage, known]
  met,               \* ids it found already in the ledger
  merged,            \* ids it inserted
  errored,           \* a page fetch of it returned a gateway error
  remote0,           \* remote when it started
  synced0,           \* syncedAt when it started
  solo,              \* no other sync has been in flight since it started
  ret,               \* the value it returned
  syncedAt,          \* remote at the start of the latest sync that completed without error (-1: none)
  \* rateLimit (part_001:21-26) and the callers of waitForRateLimit
  counter,           \* rateLimit.counter, in units of 1/Scale
  lastDecay,         \* rateLimit.lastDecay (ms)
  rpc,               \* where each caller of waitForRateLimit stands
  wake,              \* when the setTimeout of a sleeping caller is due (ms)
  \* history of the rebuilds of SpecCB
  rebuilds,          \* calls of buildCostBasis so far
  firstCostBasis,    \* state.costBasis after the first of them
  \* the exchange's amendments, the reserves of the callers, one replayed sell
  amended,           \* ids whose record the exchange has amended since it first reported it
  rsv,               \* per caller: cost of its reserve, units it added since its last call, whether it slept
  orderCalls,        \* AddOrder / CancelOrder requests sent so far
  sellCase,          \* a cost-basis entry, a sell replayed on it, and the outcome
  \* executeCommands (part_001:902) on one BUY / SELL command
  exec               \* state.orders, the exchange's open orders, the handler's locals and requests

exchangeVars == <<remote, now, fsOk>>
stateVars == <<trades, totalCount, lastFetchTime, costBasis, recentTrades,
               fileTradeHistory, fileCostBasis, tradeAnalytics, fileAnalytics>>
localVars == <<pc, kind, offset, newTradesCount, hitExisting, hasMore>>
histVars == <<log, met, merged, errored, remote0, synced0, solo, ret, syncedAt>>
rateVars == <<counter, lastDecay, rpc, wake>>
cbVars == <<rebuilds, firstCostBasis>>
restVars == <<cbVars, amended, sellCase, exec>>
reserveVars == <<rsv, orderCalls>>
syncVars == <<localVars, histVars>>
vars == <<exchangeVars, stateVars, localVars, histVars, rateVars, reserveVars, restVars>>

\* ------------------------------------------------------------ the exchange
\* The trade the exchange holds under id: ids are handed out in time order.
\* posstatus is the field of a record the exchange may amend afterwards.
RemoteTrade(id) ==
  LET vol == 1 + (id % 2)
      price == 1 + (id % 3)
  IN [id |-> id,
      pair |-> IF id % 3 = 0 THEN "XETHZEUR" ELSE "XXBTZEUR",
      type |-> IF id % 4 \in {1, 2} THEN "buy" ELSE "sell",
      vol |-> vol, price |-> price, cost |-> vol * price, time |-> id,
      posstatus |-> IF id \in amended THEN "closed" ELSE "open"]

\* TradesHistory {ofs}: at most PageSize trades, newest first, skipping the ofs newest.
Page(ofs) ==
  LET n == Min(PageSize, Max(0, remote - ofs))
  IN [i \in 1..n |-> RemoteTrade(remote - ofs - i + 1)]

\* ------------------------------------------------------------- persistence
\* A file that does not exist, and a file whose content JSON.parse raises on.
Missing == [missing |-> TRUE]
Corrupt == [corrupt |-> TRUE]

\* loadJSON with the error of JSON.parse not caught: the caller is left with
\* the unparsed content.
loadJSONNoCatch(file, defaultValue) == IF file = Missing THEN defaultValue ELSE file

\* loadJSON: the parsed content, or defaultValue when the file does not exist
\* or reading or parsing it raises.
loadJSON(file, defaultValue) ==
  IF file = Missing \/ file = Corrupt THEN defaultValue ELSE file

\* saveJSON: the file holds data afterwards, or what it held when the write
\* fails.
saveJSON(file, data, ok) == IF ok THEN data ELSE file

\* A failed write raising to the caller of saveJSON.
SaveRaisesOnFailure(ok) == ~ok

\* The catch of saveJSON logs the error: nothing is raised to the caller.
SaveRaises(ok) == FALSE

\* ---------------------------------------------------------------- cost basis
\* Every pair taken for the same asset.
getAssetFromPairMerged(pair) == "XXBT"

getAssetFromPair(pair) ==
  IF pair = "XXBTZEUR" THEN "XXBT" ELSE IF pair = "XETHZEUR" THEN "XETH" ELSE pair

\* The pair of a record that has none: pair.replace raises a TypeError on it.
NoPair == "undefined"

Replayable(trade) == trade.pair # NoPair

EmptyCostBasis == [a \in {} |-> 0]

NewAsset == [lots |-> <<>>, totalInvested |-> 0, totalReturned |-> 0,
             realizedPnL |-> 0, completedTrades |-> <<>>]

\* trades.sort((a, b) => a.time - b.time): stable, ascending.
RECURSIVE InsertByTime(_, _)
InsertByTime(s, t) ==
  IF s = <<>> THEN <<t>>
  ELSE IF s[Len(s)].time <= t.time THEN Append(s, t)
  ELSE Append(InsertByTime(SubSeq(s, 1, Len(s) - 1), t), s[Len(s)])

RECURSIVE SortByTime(_)
SortByTime(s) ==
  IF s = <<>> THEN <<>>
  ELSE InsertByTime(SortByTime(SubSeq(s, 1, Len(s) - 1)), s[Len(s)])

\* The matching loop taking the newest lot first.
RECURSIVE MatchLotsNewestFirst(_, _, _, _)
MatchLotsNewestFirst(lots, remaining, costBasisUsed, amountMatched) ==
  IF remaining > 0 /\ Len(lots) > 0
  THEN LET n == Len(lots)
           lot == lots[n]
           used == Min(remaining, lot.remaining)
           left == lot.remaining - used
           lots2 == IF left <= 0 THEN SubSeq(lots, 1, n - 1)
                    ELSE [lots EXCEPT ![n].remaining = left]
       IN MatchLotsNewestFirst(lots2, remaining - used, costBasisUsed + used * lot.price,
                               amountMatched + used)
  ELSE [lots |-> lots, costBasisUsed |-> costBasisUsed, amountMatched |-> amountMatched]

\* The matching loop shifting every lot it touched, drained or not.
RECURSIVE MatchLotsShiftAlways(_, _, _, _)
MatchLotsShiftAlways(lots, remaining, costBasisUsed, amountMatched) ==
  IF remaining > 0 /\ Len(lots) > 0
  THEN LET lot == lots[1]
           used == Min(remaining, lot.remaining)
       IN MatchLotsShiftAlways(Tail(lots), remaining - used,
                               costBasisUsed + used * lot.price, amountMatched + used)
  ELSE [lots |-> lots, costBasisUsed |-> costBasisUsed, amountMatched |-> amountMatched]

\* The matching stopped after the front lot.
MatchLotsFrontOnly(lots, remaining, costBasisUsed, amountMatched) ==
  IF remaining > 0 /\ Len(lots) > 0
  THEN LET lot == lots[1]
           used == Min(remaining, lot.remaining)
           left == lot.remaining - used
       IN [lots |-> IF left <= 0 THEN Tail(lots)
                    ELSE <<[lot EXCEPT !.remaining = left]>> \o Tail(lots),
           costBasisUsed |-> costBasisUsed + used * lot.price,
           amountMatched |-> amountMatched + used]
  ELSE [lots |-> lots, costBasisUsed |-> costBasisUsed, amountMatched |-> amountMatched]

\* The FIFO matching loop of a sell.
RECURSIVE MatchLots(_, _, _, _)
MatchLots(lots, remaining, costBasisUsed, amountMatched) ==
  IF remaining > 0 /\ Len(lots) > 0
  THEN LET lot == lots[1]
           used == Min(remaining, lot.remaining)
           left == lot.remaining - used
           lots2 == IF left <= 0 THEN Tail(lots)
                    ELSE <<[lot EXCEPT !.remaining = left]>> \o Tail(lots)
       IN MatchLots(lots2, remaining - used, costBasisUsed + used * lot.price,
                    amountMatched + used)
  ELSE [lots |-> lots, costBasisUsed |-> costBasisUsed, amountMatched |-> amountMatched]

\* The sale value taken whole, matched or not.
MatchedSaleValueFull(amountMatched, amount, cost) == cost

\* amountMatched > 0 ? (amountMatched / amount) * cost : 0
MatchedSaleValue(amountMatched, amount, cost) ==
  IF amountMatched > 0 THEN (amountMatched * cost) \div amount ELSE 0

\* totalReturned raised by the matched share of the sale only.
SellProceedsMatchedOnly(amountMatched, amount, cost) == (amountMatched * cost) \div amount

\* cb.totalReturned += cost
SellProceeds(amountMatched, amount, cost) == cost

\* One iteration of the replay loop: a buy opens a lot, a sell consumes lots.
\* (amountMatched / amount) * cost and pnl / costBasisUsed * 100 are integer
\* divisions here.
ReplayTrade(cbAll, trade) ==
  LET asset == getAssetFromPair(trade.pair)
      amount == trade.vol
      price == trade.price
      cost == trade.cost
      cb == IF asset \in DOMAIN cbAll THEN cbAll[asset] ELSE NewAsset
      cb2 ==
        IF trade.type = "buy"
        THEN [cb EXCEPT !.lots = Append(@, [price |-> price, amount |-> amount,
                                             remaining |-> amount, time |-> trade.time]),
                        !.totalInvested = @ + cost]
        ELSE IF trade.type = "sell"
        THEN LET m == MatchLots(cb.lots, amount, 0, 0)
                 matchedSaleValue == MatchedSaleValue(m.amountMatched, amount, cost)
                 pnl == matchedSaleValue - m.costBasisUsed
             IN [cb EXCEPT !.lots = m.lots,
                           !.realizedPnL = IF m.amountMatched > 0 THEN @ + pnl ELSE @,
                           !.totalReturned = @ + SellProceeds(m.amountMatched, amount, cost),
                           !.completedTrades = Append(@,
                              [sellTime |-> trade.time, sellPrice |-> price,
                               amount |-> amount, amountMatched |-> m.amountMatched,
                               pnl |-> IF m.amountMatched > 0 THEN pnl ELSE 0,
                               pnlPercent |-> IF m.costBasisUsed > 0
                                              THEN (pnl * 100) \div m.costBasisUsed
                                              ELSE 0])]
        ELSE cb
  IN [a \in DOMAIN cbAll \cup {asset} |-> IF a = asset THEN cb2 ELSE cbAll[a]]

\* The replay loop: it ends with the records, or at the first record
\* getAssetFromPair raises on, with the entries as the loop left them.
RECURSIVE Replay(_, _)
Replay(cbAll, sorted) ==
  IF sorted = <<>> \/ ~Replayable(Head(sorted)) THEN cbAll
  ELSE Replay(ReplayTrade(cbAll, Head(sorted)), Tail(sorted))

\* buildCostBasis raises on the ledger: nothing catches inside it.
Throws(ledger) == \E i \in 1..Len(ledger) : ~Replayable(ledger[i])

\* The replay started from whatever state.costBasis held: the rebuild without
\* the reset of part_001:407.
BuildCostBasisNoReset(previous, ledger) == Replay(previous, SortByTime(ledger))

\* The replay of the ledger in key order, without the sort by time.
BuildCostBasisInKeyOrder(previous, ledger) == Replay(EmptyCostBasis, ledger)

\* The rebuild left one record short of the end of the loop.
BuildCostBasisPartial(previous, ledger) ==
  LET sorted == SortByTime(ledger)
  IN Replay(EmptyCostBasis, SubSeq(sorted, 1, Len(sorted) - 1))

\* buildCostBasis: state.costBasis = {} and the replay of the sorted ledger.
BuildCostBasis(previous, ledger) == Replay(EmptyCostBasis, SortByTime(ledger))

\* updateRecentTrades(count = 200): by b.time - a.time, stable, the first 200.
RecentCount == 200

RECURSIVE InsertByTimeDesc(_, _)
InsertByTimeDesc(s, t) ==
  IF s = <<>> THEN <<t>>
  ELSE IF s[Len(s)].time >= t.time THEN Append(s, t)
  ELSE Append(InsertByTimeDesc(SubSeq(s, 1, Len(s) - 1), t), s[Len(s)])

RECURSIVE SortByTimeDesc(_)
SortByTimeDesc(s) ==
  IF s = <<>> THEN <<>>
  ELSE InsertByTimeDesc(SortByTimeDesc(SubSeq(s, 1, Len(s) - 1)), s[Len(s)])

updateRecentTrades(ledger) ==
  LET sorted == SortByTimeDesc(ledger)
  IN SubSeq(sorted, 1, Min(RecentCount, Len(sorted)))

\* ---------------------------------------------------------------- analytics
\* The keys of state.costBasis in insertion order: the assets in the order the
\* replay first met them.
RECURSIVE AssetOrder(_, _)
AssetOrder(acc, sorted) ==
  IF sorted = <<>> THEN acc
  ELSE LET asset == getAssetFromPair(Head(sorted).pair)
       IN AssetOrder(IF \E i \in 1..Len(acc) : acc[i] = asset THEN acc
                     ELSE Append(acc, asset), Tail(sorted))

\* The entries pushed to recentActivity for one asset.
ActivityOf(asset, completed) ==
  [i \in 1..Len(completed) |->
     [asset |-> asset, pnl |-> completed[i].pnl, pnlPercent |-> completed[i].pnlPercent,
      sellTime |-> completed[i].sellTime, sellPrice |-> completed[i].sellPrice]]

\* recentActivity before the sort: asset by asset, each in replay order.
RECURSIVE AllActivity(_, _)
AllActivity(cbAll, order) ==
  IF order = <<>> THEN <<>>
  ELSE ActivityOf(Head(order), cbAll[Head(order)].completedTrades)
         \o AllActivity(cbAll, Tail(order))

\* recentActivity.sort((a, b) => b.sellTime - a.sellTime): stable, descending.
RECURSIVE InsertBySellTimeDesc(_, _)
InsertBySellTimeDesc(s, t) ==
  IF s = <<>> THEN <<t>>
  ELSE IF s[Len(s)].sellTime >= t.sellTime THEN Append(s, t)
  ELSE Append(InsertBySellTimeDesc(SubSeq(s, 1, Len(s) - 1), t), s[Len(s)])

RECURSIVE SortBySellTimeDesc(_)
SortBySellTimeDesc(s) ==
  IF s = <<>> THEN <<>>
  ELSE InsertBySellTimeDesc(SortBySellTimeDesc(SubSeq(s, 1, Len(s) - 1)), s[Len(s)])

\* A trade with pnl 0 counted as losing.
IsWinStrict(pnl) == pnl > 0

\* if (t.pnl >= 0) wins++; else losses++;
IsWin(pnl) == pnl >= 0

RECURSIVE SumPnL(_)
SumPnL(s) == IF s = <<>> THEN 0 ELSE Head(s).pnl + SumPnL(Tail(s))

Wins(s) == Cardinality({i \in 1..Len(s) : IsWin(s[i].pnl)})
Losses(s) == Cardinality({i \in 1..Len(s) : ~IsWin(s[i].pnl)})

\* The total taken from the first asset alone.
SumRealizedOfFirst(cbAll, order) ==
  IF order = <<>> THEN 0 ELSE cbAll[Head(order)].realizedPnL

\* totalPnL += cb.realizedPnL over the assets.
RECURSIVE SumRealized(_, _)
SumRealized(cbAll, order) ==
  IF order = <<>> THEN 0
  ELSE cbAll[Head(order)].realizedPnL + SumRealized(cbAll, Tail(order))

\* (wins / (wins + losses)) * 100, or 0 with no trade; an integer division here.
RateOf(wins, losses) == IF wins + losses > 0 THEN (wins * 100) \div (wins + losses) ELSE 0

\* t.sellTime >= oneWeekAgo, with oneWeekAgo = (Date.now() - WeekMs) / 1000:
\* sellTime is in seconds, the clock in ms.
InWeek(sellTime, clock) == sellTime * 1000 >= clock - WeekMs

\* The displayed trades taken without the slice.
DisplayedAll(sorted) == sorted

\* recentActivity.slice(0, 50)
Displayed(sorted) == SubSeq(sorted, 1, Min(DisplayCount, Len(sorted)))

\* The analytics part of buildCostBasis at the clock reading clock. The locals
\* weeklyPnL, weeklyWins and weeklyLosses of the 7-day window are computed and
\* then not used: the fields weeklyPnL and weeklyWinRate of the summary take
\* the values of the displayed trades. lastUpdate, a clock reading nothing
\* else depends on, is left out.
BuildAnalytics(cbAll, order, clock) ==
  LET keys == SelectSeq(order, LAMBDA a : a \in DOMAIN cbAll)
      all == AllActivity(cbAll, keys)
      wins == Wins(all)
      losses == Losses(all)
      week == SelectSeq(all, LAMBDA t : InWeek(t.sellTime, clock))
      weeklyPnL == SumPnL(week)
      weeklyWins == Wins(week)
      weeklyLosses == Losses(week)
      displayedTrades == Displayed(SortBySellTimeDesc(all))
  IN [summary |-> [totalTrades |-> wins + losses,
                   realizedPnL |-> SumRealized(cbAll, keys),
                   weeklyPnL |-> SumPnL(displayedTrades),
                   winningTrades |-> wins,
                   losingTrades |-> losses,
                   winRate |-> RateOf(wins, losses),
                   weeklyWinRate |-> RateOf(Wins(displayedTrades), Losses(displayedTrades))],
      recentActivity |-> displayedTrades]

\* state.tradeAnalytics before any rebuild (part_000:41-45).
DefaultAnalytics ==
  [summary |-> [totalTrades |-> 0, realizedPnL |-> 0, winningTrades |-> 0,
                losingTrades |-> 0],
   recentActivity |-> <<>>]


\* ------------------------------------------------------------------- sync
NoRet == [trades |-> <<>>, lastFetchTime |-> -1, totalCount |-> -1]

\* The sync's promise rejected: the error raised inside it reached the caller.
Rejected == [trades |-> <<>>, lastFetchTime |-> -2, totalCount |-> -2]

HasId(ledger, id) == \E i \in 1..Len(ledger) : ledger[i].id = id

Ids(ledger) == {ledger[i].id : i \in 1..Len(ledger)}

\* fetchNewTrades' loop over a page: a known id sets hitExisting, an unknown
\* one is inserted.
RECURSIVE MergePage(_, _, _)
MergePage(acc, page, i) ==
  IF i > Len(page) THEN acc
  ELSE IF HasId(acc.trades, page[i].id)
  THEN MergePage([acc EXCEPT !.hitExisting = TRUE, !.met = @ \cup {page[i].id}], page, i + 1)
  ELSE MergePage([acc EXCEPT !.trades = Append(@, page[i]), !.newInPage = @ + 1,
                             !.merged = @ \cup {page[i].id}], page, i + 1)

\* fetchFullTradeHistory's loop over a page: trades[id] = trade for every record.
RECURSIVE PutPage(_, _, _)
PutPage(ledger, page, i) ==
  IF i > Len(page) THEN ledger
  ELSE IF HasId(ledger, page[i].id)
  THEN PutPage([k \in 1..Len(ledger) |->
                  IF ledger[k].id = page[i].id THEN page[i] ELSE ledger[k]], page, i + 1)
  ELSE PutPage(Append(ledger, page[i]), page, i + 1)

\* The loop body with the gateway error skipped instead of breaking.
BreaksNewLoopSkipError(error, count, newInPage) ==
  ~error /\ (count = 0 \/ newInPage = 0 \/ count < PageSize)

\* The breaks of fetchNewTrades' loop body.
BreaksNewLoop(error, count, newInPage) ==
  error \/ count = 0 \/ newInPage = 0 \/ count < PageSize

\* The loop running on after a known id.
NewLoopAgainAlways(hit) == TRUE

\* while (!hitExisting)
NewLoopAgain(hit) == ~hit

\* The metadata written by every incremental sync.
NewTradesWritesMetaAlways(cnt) == TRUE

\* if (newTradesCount > 0): totalCount, lastFetchTime and the file are written.
NewTradesWritesMeta(cnt) == cnt > 0

\* hasMore while a page holds any record.
FullHasMoreNonEmpty(error, count) == ~error /\ count > 0

\* fetchFullTradeHistory: the break on error, and hasMore = count === 50.
FullHasMore(error, count) == ~error /\ count = PageSize

\* The count taken from the ledger as it stood before the last page was merged.
TotalCountBeforeMerge(ledger) == Len(trades)

\* Object.keys(state.fullTradeHistory.trades).length
TotalCountOf(ledger) == Len(ledger)

\* The end of a sync: totalCount, lastFetchTime, saveTradeHistory (when
\* writeMeta), buildCostBasis, updateRecentTrades, return state.fullTradeHistory.
Finish(p, tr, writeMeta) ==
  LET t == now + 1
      tc == IF writeMeta THEN TotalCountOf(tr) ELSE totalCount
      lft == IF writeMeta THEN t ELSE lastFetchTime
      hist == [trades |-> tr, lastFetchTime |-> lft, totalCount |-> tc]
      cb == BuildCostBasis(costBasis, tr)
      an == BuildAnalytics(cb, AssetOrder(<<>>, SortByTime(tr)), now')
      raised == Throws(tr) \/ SaveRaises(fsOk)
  IN /\ now' = IF writeMeta THEN t ELSE now
     /\ trades' = tr
     /\ totalCount' = tc
     /\ lastFetchTime' = lft
     /\ fileTradeHistory' = IF writeMeta THEN saveJSON(fileTradeHistory, hist, fsOk)
                            ELSE fileTradeHistory
     /\ costBasis' = cb
     /\ tradeAnalytics' = IF Throws(tr) THEN tradeAnalytics ELSE an
     /\ fileCostBasis' = IF Throws(tr) THEN fileCostBasis
                         ELSE saveJSON(fileCostBasis, cb, fsOk)
     /\ fileAnalytics' = IF Throws(tr) THEN fileAnalytics
                         ELSE saveJSON(fileAnalytics, an, fsOk)
     /\ recentTrades' = IF raised THEN recentTrades ELSE updateRecentTrades(tr)
     /\ ret' = [ret EXCEPT ![p] = IF raised THEN Rejected ELSE hist]
     /\ pc' = [pc EXCEPT ![p] = "done"]

InFlight(p) == pc[p] \in {"reserve", "call"}

Begin(p, k) ==
  /\ pc[p] = "idle"
  /\ pc' = [pc EXCEPT ![p] = "reserve"]
  /\ kind' = [kind EXCEPT ![p] = k]
  /\ offset' = [offset EXCEPT ![p] = 0]
  /\ newTradesCount' = [newTradesCount EXCEPT ![p] = 0]
  /\ hitExisting' = [hitExisting EXCEPT ![p] = FALSE]
  /\ hasMore' = [hasMore EXCEPT ![p] = TRUE]
  /\ remote0' = [remote0 EXCEPT ![p] = remote]
  /\ synced0' = [synced0 EXCEPT ![p] = syncedAt]
  /\ solo' = [q \in Procs |-> IF q = p THEN \A r \in Procs \ {p} : ~InFlight(r)
                              ELSE IF InFlight(q) THEN FALSE ELSE solo[q]]
  /\ UNCHANGED <<exchangeVars, stateVars, log, met, merged, errored, ret, syncedAt>>
  /\ UNCHANGED <<rateVars, reserveVars, restVars>>

\* fetchAllTradeHistory, called once by init: incremental when the ledger
\* holds trades, full otherwise.
fetchAllTradeHistory(p) ==
  /\ p = "startup"
  /\ Begin(p, IF Len(trades) > 0 THEN "new" ELSE "full")

\* fetchNewTrades, called by the trade timer and by refreshAll.
fetchNewTrades(p) ==
  /\ p = "timer"
  /\ Begin(p, "new")

\* await waitForRateLimit(2) returns (the limiter itself: SpecRate); the
\* TradesHistory request goes out.
ReserveGranted(p) ==
  /\ pc[p] = "reserve"
  /\ pc' = [pc EXCEPT ![p] = "call"]
  /\ UNCHANGED <<exchangeVars, stateVars, kind, offset, newTradesCount, hitExisting,
                 hasMore, histVars, rateVars, reserveVars, restVars>>

\* The response to a page request of fetchNewTrades, up to the next await or
\* the return.
FetchNewTradesPage(p) ==
  /\ pc[p] = "call"
  /\ kind[p] = "new"
  /\ \E error \in BOOLEAN :
       LET page == IF error THEN <<>> ELSE Page(offset[p])
           count == Len(page)
           m == MergePage([trades |-> trades, hitExisting |-> hitExisting[p],
                           newInPage |-> 0, met |-> {}, merged |-> {}], page, 1)
           break == BreaksNewLoop(error, count, m.newInPage)
           again == ~break /\ NewLoopAgain(m.hitExisting)
           cnt == newTradesCount[p] + m.newInPage
       IN /\ log' = [log EXCEPT ![p] = Append(@,
                       [ofs |-> offset[p], error |-> error, count |-> count,
                        newInPage |-> m.newInPage, known |-> Cardinality(m.met)])]
          /\ met' = [met EXCEPT ![p] = @ \cup m.met]
          /\ merged' = [merged EXCEPT ![p] = @ \cup m.merged]
          /\ errored' = [errored EXCEPT ![p] = @ \/ error]
          /\ newTradesCount' = [newTradesCount EXCEPT ![p] = cnt]
          /\ hitExisting' = [hitExisting EXCEPT ![p] = m.hitExisting]
          /\ offset' = [offset EXCEPT ![p] = IF break THEN @ ELSE @ + PageSize]
          /\ IF again
             THEN /\ pc' = [pc EXCEPT ![p] = "reserve"]
                  /\ trades' = m.trades
                  /\ UNCHANGED <<now, totalCount, lastFetchTime, costBasis, recentTrades,
                                 fileTradeHistory, fileCostBasis, tradeAnalytics,
                                 fileAnalytics, ret, syncedAt>>
             ELSE /\ Finish(p, m.trades, NewTradesWritesMeta(cnt))
                  /\ syncedAt' = IF errored[p] \/ error THEN syncedAt ELSE remote0[p]
  /\ UNCHANGED <<remote, fsOk, kind, hasMore, remote0, synced0, solo, rateVars, reserveVars, restVars>>

\* The response to a page request of fetchFullTradeHistory.
FetchFullPage(p) ==
  /\ pc[p] = "call"
  /\ kind[p] = "full"
  /\ \E error \in BOOLEAN :
       LET page == IF error THEN <<>> ELSE Page(offset[p])
           count == Len(page)
           tr == PutPage(trades, page, 1)
           more == FullHasMore(error, count)
       IN /\ log' = [log EXCEPT ![p] = Append(@,
                       [ofs |-> offset[p], error |-> error, count |-> count,
                        newInPage |-> Cardinality(Ids(tr) \ Ids(trades)),
                        known |-> Cardinality(Ids(page) \cap Ids(trades))])]
          /\ merged' = [merged EXCEPT ![p] = @ \cup (Ids(tr) \ Ids(trades))]
          /\ errored' = [errored EXCEPT ![p] = @ \/ error]
          /\ hasMore' = [hasMore EXCEPT ![p] = IF error THEN @ ELSE more]
          /\ offset' = [offset EXCEPT ![p] = IF error THEN @ ELSE @ + PageSize]
          /\ IF more
             THEN /\ pc' = [pc EXCEPT ![p] = "reserve"]
                  /\ trades' = tr
                  /\ UNCHANGED <<now, totalCount, lastFetchTime, costBasis, recentTrades,
                                 fileTradeHistory, fileCostBasis, tradeAnalytics,
                                 fileAnalytics, ret, syncedAt>>
             ELSE /\ Finish(p, tr, TRUE)
                  /\ syncedAt' = IF errored[p] \/ error THEN syncedAt ELSE remote0[p]
  /\ UNCHANGED <<remote, fsOk, kind, newTradesCount, hitExisting, met, remote0,
                 synced0, solo, rateVars, reserveVars, restVars>>

\* The caller takes the returned value (index.js:76-79, 121-122); the background
\* backfill of init runs once.
Return(p) ==
  /\ pc[p] = "done"
  /\ pc' = [pc EXCEPT ![p] = IF p = "startup" THEN "finished" ELSE "idle"]
  /\ kind' = [kind EXCEPT ![p] = "none"]
  /\ offset' = [offset EXCEPT ![p] = 0]
  /\ newTradesCount' = [newTradesCount EXCEPT ![p] = 0]
  /\ hitExisting' = [hitExisting EXCEPT ![p] = FALSE]
  /\ hasMore' = [hasMore EXCEPT ![p] = TRUE]
  /\ log' = [log EXCEPT ![p] = <<>>]
  /\ met' = [met EXCEPT ![p] = {}]
  /\ merged' = [merged EXCEPT ![p] = {}]
  /\ errored' = [errored EXCEPT ![p] = FALSE]
  /\ remote0' = [remote0 EXCEPT ![p] = 0]
  /\ synced0' = [synced0 EXCEPT ![p] = -1]
  /\ solo' = [solo EXCEPT ![p] = FALSE]
  /\ ret' = [ret EXCEPT ![p] = NoRet]
  /\ UNCHANGED <<exchangeVars, stateVars, syncedAt, rateVars, reserveVars, restVars>>

\* A trade executes on the exchange: the remote history gets a newest record.
ExchangeTradeUpTo(n) ==
  /\ remote < n
  /\ remote' = remote + 1
  /\ UNCHANGED <<now, fsOk, stateVars, localVars, histVars, rateVars, reserveVars, restVars>>

ExchangeTrade == ExchangeTradeUpTo(MaxRemote)

\* The process as it starts at the clock reading clock, apart from the state
\* and the files loadAllState deals with: no callback has run, the rate
\* limiter is as constructed.
Started(clock) ==
  /\ remote = 0
  /\ now = clock
  /\ fsOk = TRUE
  /\ recentTrades = <<>>
  /\ kind = [p \in Procs |-> "none"]
  /\ offset = [p \in Procs |-> 0]
  /\ newTradesCount = [p \in Procs |-> 0]
  /\ hitExisting = [p \in Procs |-> FALSE]
  /\ hasMore = [p \in Procs |-> TRUE]
  /\ log = [p \in Procs |-> <<>>]
  /\ met = [p \in Procs |-> {}]
  /\ merged = [p \in Procs |-> {}]
  /\ errored = [p \in Procs |-> FALSE]
  /\ remote0 = [p \in Procs |-> 0]
  /\ synced0 = [p \in Procs |-> -1]
  /\ solo = [p \in Procs |-> FALSE]
  /\ ret = [p \in Procs |-> NoRet]
  /\ syncedAt = -1
  /\ counter = 0
  /\ lastDecay = now
  /\ rpc = [c \in RateCallers |-> "idle"]
  /\ wake = [c \in RateCallers |-> 0]
  /\ rebuilds = 0
  /\ firstCostBasis = EmptyCostBasis
  /\ amended = {}
  /\ rsv = [c \in RateCallers |-> NoReserve]
  /\ orderCalls = 0

\* The state after loadAllState has read a trade-history file holding the
\* ledger tr and a cost-basis file holding cb (no file: the defaults of
\* part_000:39-45 and part_000:91), before any callback ran, at the clock
\* reading clock.
LoadedWith(tr, cb, clock) ==
  /\ Started(clock)
  /\ trades = tr
  /\ totalCount = Len(tr)
  /\ lastFetchTime = 0
  /\ costBasis = cb
  /\ fileTradeHistory = [trades |-> tr, lastFetchTime |-> 0, totalCount |-> Len(tr)]
  /\ fileCostBasis = cb
  /\ tradeAnalytics = DefaultAnalytics
  /\ fileAnalytics = DefaultAnalytics
  /\ pc = [p \in Procs |-> "idle"]

Loaded(tr) == LoadedWith(tr, EmptyCostBasis, 1)

Init == Loaded(<<>>) /\ sellCase = NoSellCase /\ exec = NoExec

Next ==
  \/ \E p \in Procs : fetchAllTradeHistory(p)
  \/ \E p \in Procs : fetchNewTrades(p)
  \/ \E p \in Procs : ReserveGranted(p)
  \/ \E p \in Procs : FetchNewTradesPage(p)
  \/ \E p \in Procs : FetchFullPage(p)
  \/ \E p \in Procs : Return(p)
  \/ ExchangeTrade

Spec == Init /\ [][Next]_vars

\* The trade timer's incremental syncs alone, against a longer remote history.
ExchangeTradeLong == ExchangeTradeUpTo(MaxRemoteLong)

NextIncr ==
  \/ \E p \in {"timer"} : fetchNewTrades(p)
  \/ \E p \in {"timer"} : ReserveGranted(p)
  \/ \E p \in {"timer"} : FetchNewTradesPage(p)
  \/ \E p \in {"timer"} : Return(p)
  \/ ExchangeTradeLong

SpecIncr == Init /\ [][NextIncr]_vars

\* writeFileSync starts to fail (disk full, data directory gone), and works
\* again.
DiskFails ==
  /\ fsOk
  /\ fsOk' = FALSE
  /\ UNCHANGED <<remote, now, stateVars, syncVars, rateVars, reserveVars, restVars>>

DiskRecovers ==
  /\ ~fsOk
  /\ fsOk' = TRUE
  /\ UNCHANGED <<remote, now, stateVars, syncVars, rateVars, reserveVars, restVars>>

\* The trade timer's incremental syncs on a disk that fails and recovers.
NextDisk ==
  \/ \E p \in {"timer"} : fetchNewTrades(p)
  \/ \E p \in {"timer"} : ReserveGranted(p)
  \/ \E p \in {"timer"} : FetchNewTradesPage(p)
  \/ \E p \in {"timer"} : Return(p)
  \/ ExchangeTrade
  \/ DiskFails
  \/ DiskRecovers

SpecDisk == Init /\ [][NextDisk]_vars

\* The exchange amends the record it holds under an id: later TradesHistory
\* responses carry the amended record.
ExchangeAmends ==
  /\ Cardinality(amended) < MaxAmended
  /\ \E id \in (1..remote) \ amended : amended' = amended \cup {id}
  /\ UNCHANGED <<exchangeVars, stateVars, syncVars, rateVars, reserveVars, cbVars,
                 sellCase, exec>>

\* The background backfill of init alone, against an exchange that appends
\* trades and amends records.
NextAmend ==
  \/ \E p \in {"startup"} : fetchAllTradeHistory(p)
  \/ \E p \in {"startup"} : ReserveGranted(p)
  \/ \E p \in {"startup"} : FetchFullPage(p)
  \/ \E p \in {"startup"} : Return(p)
  \/ ExchangeTrade
  \/ ExchangeAmends

SpecAmend == Init /\ [][NextAmend]_vars


\* ------------------------------------------------------------ rate limiter
\* Every call site passing 1.
CostOfFlat(c) == 1

CostOf(c) == IF c = "trades" THEN 2 ELSE 1

\* counter is kept in units of 1/Scale, so that the decay of one millisecond,
\* 0.33 / 1000, is decayRate units.
Scale == 100 * 1000
maxCounter == 15
decayRate == 33
SafetyMarginMs == 500

\* The decay taken over the whole seconds elapsed only.
DecayedByWholeSeconds == Max(0, counter - ((now - lastDecay) \div 1000) * 1000 * decayRate)

\* decayCounter's new counter: Math.max(0, counter - elapsed * decayRate).
Decayed == Max(0, counter - (now - lastDecay) * decayRate)

\* The loop condition with >= for >.
MustWaitAtLimit(cnt, cost) == cnt + cost * Scale >= maxCounter * Scale

\* The loop condition read without the cost.
MustWaitIgnoringCost(cnt, cost) == cnt > maxCounter * Scale

\* The loop condition with the cost capped at maxCounter.
MustWaitCostCapped(cnt, cost) == cnt + Min(cost, maxCounter) * Scale > maxCounter * Scale

\* while (rateLimit.counter + cost > rateLimit.maxCounter)
MustWait(cnt, cost) == cnt + cost * Scale > maxCounter * Scale

\* The wait computed with Math.floor for Math.ceil.
WaitTimeFloor(cnt, cost) ==
  LET excess == cnt + cost * Scale - maxCounter * Scale
  IN (excess \div (decayRate * 1000)) * 1000 + SafetyMarginMs

\* Math.ceil((counter + cost - maxCounter) / decayRate) * 1000 + 500
WaitTime(cnt, cost) ==
  LET excess == cnt + cost * Scale - maxCounter * Scale
      perSecond == decayRate * 1000
  IN ((excess + perSecond - 1) \div perSecond) * 1000 + SafetyMarginMs

\* decayCounter, then the loop: either the check passes and the counter is
\* raised in the same run, or the caller goes to sleep.
DecayAndCheck(c, cost) ==
  LET d == Decayed
  IN /\ lastDecay' = now
     /\ IF MustWait(d, cost)
        THEN /\ counter' = d
             /\ rpc' = [rpc EXCEPT ![c] = "sleeping"]
             /\ wake' = [wake EXCEPT ![c] = now + WaitTime(d, cost)]
             /\ rsv' = [rsv EXCEPT ![c].cost = cost, ![c].slept = TRUE]
        ELSE /\ counter' = d + cost * Scale
             /\ rpc' = [rpc EXCEPT ![c] = "granted"]
             /\ wake' = [wake EXCEPT ![c] = 0]
             /\ rsv' = [rsv EXCEPT ![c].cost = cost, ![c].paid = @ + cost]

\* A caller enters waitForRateLimit(cost) with the cost its call site passes.
waitForRateLimit(c) ==
  /\ rpc[c] = "idle"
  /\ DecayAndCheck(c, CostOf(c))
  /\ UNCHANGED <<exchangeVars, stateVars, syncVars, restVars, orderCalls>>

\* The setTimeout of a sleeping caller fires: decayCounter and the check again.
TimerFires(c) ==
  /\ rpc[c] = "sleeping"
  /\ now >= wake[c]
  /\ DecayAndCheck(c, rsv[c].cost)
  /\ UNCHANGED <<exchangeVars, stateVars, syncVars, restVars, orderCalls>>

\* waitForRateLimit has returned; the caller sends its request (Balance,
\* OpenOrders, TradesHistory) and is done.
Granted(c) ==
  /\ rpc[c] = "granted"
  /\ rpc' = [rpc EXCEPT ![c] = "idle"]
  /\ rsv' = [rsv EXCEPT ![c] = NoReserve]
  /\ UNCHANGED <<exchangeVars, stateVars, syncVars, restVars, counter, lastDecay, wake,
                 orderCalls>>

\* limitBuy, limitSell, cancelOrder: the AddOrder / CancelOrder request goes
\* out with no waitForRateLimit before it.
PlaceOrCancelOrder ==
  /\ orderCalls < MaxOrders
  /\ orderCalls' = orderCalls + 1
  /\ UNCHANGED <<exchangeVars, stateVars, syncVars, restVars, rateVars, rsv>>

Tick ==
  /\ now + TickMs <= MaxClock
  /\ now' = now + TickMs
  /\ UNCHANGED <<remote, fsOk, stateVars, syncVars, rateVars, reserveVars, restVars>>

NextRate ==
  \/ \E c \in RateCallers : waitForRateLimit(c)
  \/ \E c \in RateCallers : TimerFires(c)
  \/ \E c \in RateCallers : Granted(c)
  \/ PlaceOrCancelOrder
  \/ Tick

SpecRate == Init /\ [][NextRate]_vars

\* One caller of waitForRateLimit(cost), any cost up to maxCounter, while
\* time advances: calls are made before MaxClock and the clock runs on until
\* the longest wait a call can compute has passed.
LiveCallers == {"trades"}
LiveCosts == {0, 2, maxCounter}
LiveClockEnd == MaxClock + WaitTime(maxCounter * Scale, maxCounter) + TickMs

reserve(c, cost) ==
  /\ rpc[c] = "idle"
  /\ now < MaxClock
  /\ DecayAndCheck(c, cost)
  /\ UNCHANGED <<exchangeVars, stateVars, syncVars, restVars, orderCalls>>

TickLive ==
  /\ now + TickMs <= LiveClockEnd
  /\ now' = now + TickMs
  /\ UNCHANGED <<remote, fsOk, stateVars, syncVars, rateVars, reserveVars, restVars>>

NextLive ==
  \/ \E c \in LiveCallers : \E cost \in LiveCosts : reserve(c, cost)
  \/ \E c \in LiveCallers : TimerFires(c)
  \/ \E c \in LiveCallers : Granted(c)
  \/ TickLive

\* Time advances, and a timer that is due runs its callback.
SpecLive ==
  /\ Init
  /\ [][NextLive]_vars
  /\ WF_vars(TickLive)
  /\ \A c \in LiveCallers : WF_vars(TimerFires(c))

\* One caller of waitForRateLimit(cost) with costs above maxCounter among
\* its costs, while time advances.
OverCosts == {maxCounter + 1, 2 * maxCounter}

NextOver ==
  \/ \E c \in LiveCallers : \E cost \in {2} \cup OverCosts : reserve(c, cost)
  \/ \E c \in LiveCallers : TimerFires(c)
  \/ \E c \in LiveCallers : Granted(c)
  \/ TickLive

SpecOver ==
  /\ Init
  /\ [][NextOver]_vars
  /\ WF_vars(TickLive)
  /\ \A c \in LiveCallers : WF_vars(TimerFires(c))

\* --------------------------------------------------- cost basis on any ledger
Times == {1, 2}
\* The time of the sell record of SpecSell: later than every time of Times.
SellTime == 3
Vols == {1, 2}

\* The price of a pair at a time: rising for one pair, falling for the other.
PriceAt(pair, time) == IF pair = "XXBTZEUR" THEN time + 1 ELSE 7 - 2 * time

\* A trade record as the exchange reports it: cost = price * vol.
TradeRecord(id, pair, type, vol, time) ==
  [id |-> id, pair |-> pair, type |-> type, vol |-> vol,
   price |-> PriceAt(pair, time), cost |-> vol * PriceAt(pair, time), time |-> time]

TradeShapes == Pairs \X {"buy", "sell"} \X Vols \X Times

\* The ledgers of n records of the given shapes, in any key order with respect
\* to time.
LedgersOver(n, shapes) ==
  {[i \in 1..n |-> TradeRecord(i, f[i][1], f[i][2], f[i][3], f[i][4])] :
     f \in [1..n -> shapes]}

Ledgers(n) == LedgersOver(n, TradeShapes)

\* The clock readings of a rebuild: with every time inside the 7-day window,
\* and with the times from 2 on alone inside it.
Clocks == {1, 3000}

InitCB ==
  \E n \in 0..MaxLen : \E tr \in Ledgers(n) : \E clock \in Clocks :
    LoadedWith(tr, EmptyCostBasis, clock) /\ sellCase = NoSellCase /\ exec = NoExec

\* buildCostBasis() on the ledger as it stands.
Rebuild ==
  /\ rebuilds < MaxRebuilds
  /\ rebuilds' = rebuilds + 1
  /\ costBasis' = BuildCostBasis(costBasis, trades)
  /\ LET an == BuildAnalytics(costBasis', AssetOrder(<<>>, SortByTime(trades)), now)
     IN IF Throws(trades)
        THEN UNCHANGED <<tradeAnalytics, fileCostBasis, fileAnalytics>>
        ELSE /\ tradeAnalytics' = an
             /\ fileCostBasis' = saveJSON(fileCostBasis, costBasis', fsOk)
             /\ fileAnalytics' = saveJSON(fileAnalytics, an, fsOk)
  /\ firstCostBasis' = IF rebuilds = 0 THEN costBasis' ELSE firstCostBasis
  /\ UNCHANGED <<exchangeVars, trades, totalCount, lastFetchTime, recentTrades,
                 fileTradeHistory, syncVars, rateVars, reserveVars, amended, sellCase,
                 exec>>

NextCB == Rebuild

SpecCB == InitCB /\ [][NextCB]_vars

\* ------------------------------------------- a record that cannot be replayed
\* The state loadAllState leaves after a run whose last sync saved a ledger
\* ending in a record without pair and whose rebuild then raised: the ledger
\* file holds the record, the cost-basis file the result of the rebuild before
\* it arrived.
InitBad ==
  \E n \in 0..MaxLen : \E good \in Ledgers(n) : \E time \in Times :
    /\ LoadedWith(Append(good, TradeRecord(n + 1, NoPair, "buy", 1, time)),
                  BuildCostBasis(EmptyCostBasis, good), 1)
    /\ sellCase = NoSellCase /\ exec = NoExec

NextBad == Rebuild

SpecBad == InitBad /\ [][NextBad]_vars

\* ------------------------------------------------ records of volume 0 too
ZeroShapes == Pairs \X {"buy", "sell"} \X ({0} \cup Vols) \X Times

InitZero ==
  \E n \in 0..MaxLen : \E tr \in LedgersOver(n, ZeroShapes) :
    LoadedWith(tr, EmptyCostBasis, 1) /\ sellCase = NoSellCase /\ exec = NoExec

NextZero == Rebuild

SpecZero == InitZero /\ [][NextZero]_vars

\* ------------------------------------------------- analytics on any ledger
\* Longer ledgers of unit volumes over three times, so that more sells than
\* the window holds can follow a buy.
AnalyticsShapes == Pairs \X {"buy", "sell"} \X {1} \X (Times \cup {SellTime})

InitAnalytics ==
  \E n \in 0..MaxLenAnalytics : \E tr \in LedgersOver(n, AnalyticsShapes) :
    \E clock \in Clocks :
      LoadedWith(tr, EmptyCostBasis, clock) /\ sellCase = NoSellCase /\ exec = NoExec

NextAnalytics == Rebuild

SpecAnalytics == InitAnalytics /\ [][NextAnalytics]_vars

\* ------------------------------------------------------------ loadAllState
\* What the three files can hold when the process starts: nothing, content
\* that does not parse, or what an earlier run saved.
HistoryFiles ==
  {Missing, Corrupt} \cup
    {[trades |-> tr, lastFetchTime |-> t, totalCount |-> Len(tr)] :
       tr \in UNION {Ledgers(n) : n \in 0..MaxLenLoad}, t \in {0, 5}}

CostBasisFiles ==
  {Missing, Corrupt} \cup
    {BuildCostBasis(EmptyCostBasis, tr) : tr \in UNION {Ledgers(n) : n \in 0..MaxLenLoad}}

AnalyticsFiles ==
  {Missing, Corrupt, DefaultAnalytics} \cup
    {BuildAnalytics(BuildCostBasis(EmptyCostBasis, tr), AssetOrder(<<>>, SortByTime(tr)), 1) :
       tr \in UNION {Ledgers(n) : n \in 0..MaxLenLoad}}

\* The process before init has called loadAllState (index.js:52): state holds
\* the defaults of part_000:21-54.
InitLoad ==
  /\ Started(1)
  /\ trades = <<>>
  /\ totalCount = 0
  /\ lastFetchTime = 0
  /\ costBasis = EmptyCostBasis
  /\ tradeAnalytics = DefaultAnalytics
  /\ fileTradeHistory \in HistoryFiles
  /\ fileCostBasis \in CostBasisFiles
  /\ fileAnalytics \in AnalyticsFiles
  /\ pc = [p \in Procs |-> IF p = "startup" THEN "boot" ELSE "idle"]
  /\ sellCase = NoSellCase /\ exec = NoExec

\* loadAllState, for the three files of the trade history, the cost basis and
\* the analytics; init goes on afterwards.
loadAllState ==
  /\ pc["startup"] = "boot"
  /\ LET h == loadJSON(fileTradeHistory,
                       [trades |-> trades, lastFetchTime |-> lastFetchTime,
                        totalCount |-> totalCount])
     IN /\ trades' = h.trades
        /\ lastFetchTime' = h.lastFetchTime
        /\ totalCount' = h.totalCount
  /\ costBasis' = loadJSON(fileCostBasis, EmptyCostBasis)
  /\ tradeAnalytics' = loadJSON(fileAnalytics, tradeAnalytics)
  /\ pc' = [pc EXCEPT !["startup"] = "idle"]
  /\ UNCHANGED <<exchangeVars, recentTrades, fileTradeHistory, fileCostBasis, fileAnalytics,
                 kind, offset, newTradesCount, hitExisting, hasMore, histVars, rateVars,
                 reserveVars, restVars>>

NextLoad == loadAllState

SpecLoad == InitLoad /\ [][NextLoad]_vars

\* ------------------------------------------------ one sell on any cost basis
SellVols == 1..5

\* The lots of an asset in a cost-basis map; none when the asset is not in it.
LotsOf(cbAll, asset) == IF asset \in DOMAIN cbAll THEN cbAll[asset].lots ELSE <<>>

\* The cost basis buildCostBasis has built from a ledger, and a sell record
\* later than every record of that ledger.
InitSell ==
  /\ Loaded(<<>>)
  /\ \E n \in 0..MaxLen : \E tr \in Ledgers(n) : \E pair \in Pairs : \E vol \in SellVols :
       sellCase = [before |-> BuildCostBasis(EmptyCostBasis, tr),
                   trade |-> TradeRecord(MaxLen + 1, pair, "sell", vol, SellTime),
                   match |-> <<>>, after |-> <<>>, done |-> FALSE]
  /\ exec = NoExec

\* The iteration of the replay loop on the sell record.
ReplaySell ==
  /\ ~sellCase.done
  /\ sellCase' = [sellCase EXCEPT
        !.match = MatchLots(LotsOf(sellCase.before, getAssetFromPair(sellCase.trade.pair)),
                            sellCase.trade.vol, 0, 0),
        !.after = ReplayTrade(sellCase.before, sellCase.trade),
        !.done = TRUE]
  /\ UNCHANGED <<exchangeVars, stateVars, syncVars, rateVars, reserveVars, cbVars, amended,
                 exec>>

NextSell == ReplaySell

SpecSell == InitSell /\ [][NextSell]_vars

\* ------------------------------------------- executeCommands on BUY / SELL
\* Pair and asset names are sequences of characters, so that replace,
\* endsWith and slice are computed as the source computes them.
Eur == <<"E", "U", "R">>
Zeur == <<"Z">> \o Eur
XETH == <<"X", "E", "T", "H">>
ETH == <<"E", "T", "H">>
ADA == <<"A", "D", "A">>
DOGE == <<"D", "O", "G", "E">>

\* state.pairs after fetchPairs: the keys of AssetPairs ending in EUR, with
\* the base asset of each.
PairInfo == [p \in {XETH \o Zeur, ADA \o Eur} |-> [base |-> IF p = XETH \o Zeur THEN XETH ELSE ADA]]

\* The spellings of descr.pair the exchange reports for an open order.
OrderSpellings == {XETH \o Zeur, XETH \o Eur, ETH \o Eur, ADA \o Eur, ADA \o Zeur}

\* The assets a command names.
CommandAssets == {ETH, ADA, DOGE}

\* Open orders the exchange holds at most when the command arrives.
MaxOpen == 2

\* The volume multipliers of a SELL: [1.0, 0.999, 0.99].
VolumeAttempts == 3

NoPairFound == <<>>

startsWith(s, pre) == Len(s) >= Len(pre) /\ SubSeq(s, 1, Len(pre)) = pre
endsWith(s, suf) == Len(s) >= Len(suf) /\ SubSeq(s, Len(s) - Len(suf) + 1, Len(s)) = suf
slice(s, n) == SubSeq(s, n + 1, Len(s))

\* s.replace(sub, by) with a string pattern: the first occurrence only.
replace(s, sub, by) ==
  LET at == {i \in 1..(Len(s) - Len(sub) + 1) : SubSeq(s, i, i + Len(sub) - 1) = sub}
  IN IF at = {} THEN s
     ELSE LET i == CHOOSE j \in at : \A k \in at : j <= k
          IN SubSeq(s, 1, i - 1) \o by \o SubSeq(s, i + Len(sub), Len(s))

\* s.replace(/Z?EUR$/, '').
stripQuote(s) ==
  IF endsWith(s, Zeur) THEN SubSeq(s, 1, Len(s) - 4)
  ELSE IF endsWith(s, Eur) THEN SubSeq(s, 1, Len(s) - 3)
  ELSE s

\* state.assetToPairMap as fetchPairs builds it: the pairs an asset name is
\* mapped to (one at most, for the pairs of PairInfo).
MappedPairs(asset) ==
  {p \in DOMAIN PairInfo :
     LET base == PairInfo[p].base
     IN \/ asset = base
        \/ startsWith(base, <<"X">>) /\ Len(base) <= 5 /\ asset = slice(base, 1)
        \/ startsWith(base, <<"X", "X">>) /\ Len(base) <= 6
             /\ asset \in {slice(base, 1), slice(base, 2)}}

findPairForAsset(assetName) ==
  LET variations == <<assetName \o Eur, assetName \o Zeur, <<"X">> \o assetName \o Zeur,
                      <<"X", "X">> \o slice(assetName, 1) \o Zeur>>
      found == {i \in 1..4 : variations[i] \in DOMAIN PairInfo}
      byBase == {p \in DOMAIN PairInfo :
                   /\ PairInfo[p].base \in {assetName, <<"X">> \o assetName,
                                            <<"X", "X">> \o slice(assetName, 1)}
                   /\ (endsWith(p, Eur) \/ endsWith(p, Zeur))}
  IN IF MappedPairs(assetName) # {} THEN CHOOSE p \in MappedPairs(assetName) : TRUE
     ELSE IF found # {} THEN variations[CHOOSE i \in found : \A j \in found : i <= j]
     ELSE IF byBase # {} THEN CHOOSE p \in byBase : TRUE
     ELSE NoPairFound

\* The filter of existingOrders in the BUY / SELL branch.
MatchesPair(orderPair, pair) ==
  \/ orderPair = pair
  \/ orderPair = replace(pair, Zeur, Eur)
  \/ orderPair = replace(pair, Eur, Zeur)

\* The asset the prompt names for an open order, and the pair the bot trades
\* that asset on.
OrderAsset(orderPair) == stripQuote(orderPair)
OrderIsOn(orderPair, pair) == findPairForAsset(OrderAsset(orderPair)) = pair

\* Object.entries(orders).filter(...): the ids of the matching orders, in order.
ExistingOrders(orders, pair) ==
  LET hit == SelectSeq(orders, LAMBDA o : MatchesPair(o.pair, pair))
  IN [i \in 1..Len(hit) |-> hit[i].id]

DeleteOrder(orders, id) == SelectSeq(orders, LAMBDA o : o.id # id)
OrderIds(orders) == {orders[i].id : i \in 1..Len(orders)}

\* The open orders of the exchange when the command arrives: ids 1..n.
RECURSIVE OpenOrdersOf(_)
OpenOrdersOf(n) ==
  IF n = 0 THEN {<<>>}
  ELSE {Append(os, [id |-> n, pair |-> sp]) : os \in OpenOrdersOf(n - 1), sp \in OrderSpellings}

\* kraken.cancelOrder(id) sent: the exchange cancels the order or refuses.
SendCancel(e, id, ok) ==
  [e EXCEPT !.pc = "cancelling",
            !.cancelResult = ok,
            !.open = IF ok THEN DeleteOrder(@, id) ELSE @,
            !.requests = Append(@, [op |-> "CancelOrder", id |-> id, pair |-> NoPairFound])]

\* kraken.limitBuy / limitSell sent: the exchange accepts the order and
\* lists it under one of its spellings of the pair, or refuses with an
\* error that names the volume or with another error.
SendOrder(e, outcome, sp) ==
  [e EXCEPT !.pc = "placing",
            !.result = outcome,
            !.open = IF outcome = "success"
                     THEN Append(@, [id |-> e.nextId, pair |-> sp]) ELSE @,
            !.nextId = IF outcome = "success" THEN @ + 1 ELSE @,
            !.requests = Append(@, [op |-> "AddOrder", id |-> 0, pair |-> e.pair])]

Finished(e, result) == [e EXCEPT !.pc = "done", !.result = result]

\* From the end of the cancel loop to the first request for the new order.
AfterCancels(e, outcome, sp) ==
  IF ~e.funded
  THEN Finished(e, IF e.action = "SELL" THEN "no_holdings" ELSE "insufficient_balance")
  ELSE SendOrder([e EXCEPT !.attempt = 1], outcome, sp)

\* The handler of one BUY / SELL command up to its first await.
ExecBegin ==
  /\ exec.pc = "idle"
  /\ \E ok \in BOOLEAN, outcome \in {"success", "volume", "other"}, sp \in OrderSpellings :
       LET pair == findPairForAsset(exec.asset)
           existing == ExistingOrders(exec.orders, pair)
           e == [exec EXCEPT !.pair = pair, !.existingOrders = existing, !.known = exec.orders]
       IN /\ pair # NoPairFound => OrderIsOn(sp, pair)
          /\ exec' = IF pair = NoPairFound THEN Finished(e, "pair_not_found")
                     ELSE IF existing = <<>> THEN AfterCancels(e, outcome, sp)
                     ELSE SendCancel([e EXCEPT !.i = 1], existing[1], ok)
  /\ UNCHANGED <<exchangeVars, stateVars, syncVars, rateVars, reserveVars, cbVars, amended,
                 sellCase>>

\* cancelOrder resolves: a cancelled order leaves state.orders; the 500 ms
\* timer is set.
ExecCancelReturns ==
  /\ exec.pc = "cancelling"
  /\ exec' = [exec EXCEPT
        !.pc = "pause",
        !.orders = IF exec.cancelResult THEN DeleteOrder(@, exec.existingOrders[exec.i]) ELSE @,
        !.deleted = IF exec.cancelResult THEN @ \cup {exec.existingOrders[exec.i]} ELSE @]
  /\ UNCHANGED <<exchangeVars, stateVars, syncVars, rateVars, reserveVars, cbVars, amended,
                 sellCase>>

\* The 500 ms timer fires: the next cancel, or the checks and the new order.
ExecResume ==
  /\ exec.pc = "pause"
  /\ \E ok \in BOOLEAN, outcome \in {"success", "volume", "other"}, sp \in OrderSpellings :
       /\ OrderIsOn(sp, exec.pair)
       /\ exec' = IF exec.i < Len(exec.existingOrders)
                  THEN SendCancel([exec EXCEPT !.i = @ + 1], exec.existingOrders[exec.i + 1], ok)
                  ELSE AfterCancels(exec, outcome, sp)
  /\ UNCHANGED <<exchangeVars, stateVars, syncVars, rateVars, reserveVars, cbVars, amended,
                 sellCase>>

\* limitBuy / limitSell resolves: a SELL refused for its volume waits 500 ms
\* for the next multiplier, anything else ends the command.
ExecOrderReturns ==
  /\ exec.pc = "placing"
  /\ exec' = IF exec.action = "SELL" /\ exec.result = "volume"
             THEN [exec EXCEPT !.pc = "retryPause"]
             ELSE Finished(exec, exec.result)
  /\ UNCHANGED <<exchangeVars, stateVars, syncVars, rateVars, reserveVars, cbVars, amended,
                 sellCase>>

\* The 500 ms timer of the SELL loop fires: the next multiplier, or the end.
ExecRetry ==
  /\ exec.pc = "retryPause"
  /\ \E outcome \in {"success", "volume", "other"}, sp \in OrderSpellings :
       /\ OrderIsOn(sp, exec.pair)
       /\ exec' = IF exec.attempt < VolumeAttempts
                  THEN SendOrder([exec EXCEPT !.attempt = @ + 1], outcome, sp)
                  ELSE Finished(exec, exec.result)
  /\ UNCHANGED <<exchangeVars, stateVars, syncVars, rateVars, reserveVars, cbVars, amended,
                 sellCase>>

\* The orders timer of index.js: fetchOrders replaces state.orders by the
\* exchange's open orders, between two steps of the command.
fetchOrders ==
  /\ exec.pc \notin {"none", "idle"}
  /\ exec.orders # exec.open
  /\ exec' = [exec EXCEPT !.orders = exec.open]
  /\ UNCHANGED <<exchangeVars, stateVars, syncVars, rateVars, reserveVars, cbVars, amended,
                 sellCase>>

InitExec ==
  /\ Loaded(<<>>)
  /\ sellCase = NoSellCase
  /\ \E n \in 0..MaxOpen : \E os \in OpenOrdersOf(n) :
     \E action \in {"BUY", "SELL"}, asset \in CommandAssets, funded \in BOOLEAN :
       exec = [pc |-> "idle", action |-> action, asset |-> asset, funded |-> funded,
               orders |-> os, open |-> os, nextId |-> n + 1,
               pair |-> NoPairFound, existingOrders |-> <<>>, i |-> 0, cancelResult |-> FALSE,
               attempt |-> 0, result |-> "", requests |-> <<>>, known |-> <<>>,
               deleted |-> {}]

NextExec ==
  \/ ExecBegin
  \/ ExecCancelReturns
  \/ ExecResume
  \/ ExecOrderReturns
  \/ ExecRetry
  \/ fetchOrders

SpecExec == InitExec /\ [][NextExec]_vars

\* =================================================================== claims

\* C1: whenever an incremental sync meets a record id that is already in the
\* ledger, every remote trade older than that record is in the ledger (looked
\* at once the page is merged, in a sync that ran with no other sync in flight
\* and with no trade added to the remote history since it started).
C1_ConvergenceSound ==
  \A p \in Procs :
    (kind[p] = "new" /\ solo[p] /\ remote = remote0[p])
      => \A x \in met[p] : \A y \in 1..(x - 1) : y \in Ids(trades)

\* C2: the step in which a sync ends on a gateway error leaves lastFetchTime
\* as it was, whatever the sync merged from earlier pages.
C2_ErrorKeepsLastFetchTime ==
  [][\A p \in Procs :
       (pc[p] = "call" /\ pc'[p] = "done" /\ errored'[p])
         => lastFetchTime' = lastFetchTime]_vars

\* C3: a gateway error is the last page fetch of its sync (the sync has
\* returned, no further fetch follows it), and every record the sync merged
\* before the error is in the ledger when it returns.
C3_ErrorStopsAndKeepsProgress ==
  \A p \in Procs :
    /\ \A i \in 1..Len(log[p]) :
         log[p][i].error => (i = Len(log[p]) /\ pc[p] = "done")
    /\ (pc[p] = "done" /\ errored[p]) => merged[p] \subseteq Ids(trades)

C3_Witness ==
  \E p \in Procs : pc[p] = "done" /\ errored[p] /\ merged[p] # {} /\ Len(log[p]) >= 2

\* C4: the value a failed sync returns differs from the value a sync that
\* completed without error returns.
C4_FailureSignalled ==
  \A p, q \in Procs :
    (pc[p] = "done" /\ pc[q] = "done" /\ errored[p] /\ ~errored[q]) => ret[p] # ret[q]

\* C5: whenever a waitForRateLimit has returned, 0 <= counter <= maxCounter,
\* for every interleaving of the callers.
C5_RateBudgetBound ==
  \A c \in RateCallers :
    rpc[c] = "granted" => (0 <= counter /\ counter <= maxCounter * Scale)

C5_Witness ==
  \E c, d \in RateCallers :
    /\ rpc[c] = "granted" /\ rpc[d] = "sleeping"
    /\ counter + CostOf(d) * Scale > maxCounter * Scale

Assets == {getAssetFromPair(pair) : pair \in Pairs}

\* The cost-basis ledger of an asset; an asset without trades has none.
CostBasisOf(a) == IF a \in DOMAIN costBasis THEN costBasis[a] ELSE NewAsset

RECURSIVE SumRemaining(_)
SumRemaining(lots) ==
  IF lots = <<>> THEN 0 ELSE Head(lots).remaining + SumRemaining(Tail(lots))

RECURSIVE SumMatched(_)
SumMatched(completed) ==
  IF completed = <<>> THEN 0 ELSE Head(completed).amountMatched + SumMatched(Tail(completed))

RECURSIVE BuyVolume(_, _)
BuyVolume(ledger, a) ==
  IF ledger = <<>> THEN 0
  ELSE (IF Head(ledger).type = "buy" /\ getAssetFromPair(Head(ledger).pair) = a
        THEN Head(ledger).vol ELSE 0) + BuyVolume(Tail(ledger), a)

\* C6: after buildCostBasis has replayed the ledger, for every asset the
\* remaining of its lots plus the amountMatched of its CompletedTrades add up
\* to the volume of its buy records.
C6_Conservation ==
  rebuilds >= 1 =>
    \A a \in Assets :
      SumRemaining(CostBasisOf(a).lots) + SumMatched(CostBasisOf(a).completedTrades)
        = BuyVolume(trades, a)

C6_Witness ==
  /\ rebuilds >= 1
  /\ \E a \in DOMAIN costBasis :
       /\ Len(costBasis[a].lots) >= 1
       /\ costBasis[a].lots[1].remaining < costBasis[a].lots[1].amount
       /\ \E i \in 1..Len(costBasis[a].completedTrades) :
            costBasis[a].completedTrades[i].amountMatched > 0

C9_FullBackfill ==
  \A p \in Procs :
    (pc[p] = "done" /\ kind[p] = "full" /\ ~errored[p] /\ remote = remote0[p])
      => LET n == Len(log[p])
         IN /\ n = (remote \div PageSize) + 1
            /\ \A i \in 1..n : log[p][i].ofs = (i - 1) * PageSize
            /\ \A i \in 1..(n - 1) : log[p][i].count = PageSize
            /\ log[p][n].count < PageSize
            /\ Len(trades) = remote
            /\ Ids(trades) = 1..remote
            /\ \A i \in 1..Len(trades) : trades[i] = RemoteTrade(trades[i].id)

C9_Witness ==
  \E p \in Procs :
    /\ pc[p] = "done" /\ kind[p] = "full" /\ ~errored[p] /\ remote = remote0[p]
    /\ Len(log[p]) = 3 /\ log[p][3].count > 0

\* The sync p stopped right after its i-th page fetch.
StoppedAfter(p, i) == i = Len(log[p]) /\ pc[p] = "done"

\* The sync p advanced by a page after its i-th page fetch and fetches again.
AdvancedAfter(p, i) ==
  IF i = Len(log[p])
  THEN pc[p] \in {"reserve", "call"} /\ offset[p] = log[p][i].ofs + PageSize
  ELSE log[p][i + 1].ofs = log[p][i].ofs + PageSize

\* C10 as stated: after a successful page the incremental sync stops if the
\* page held no unseen id or fewer than P records, and advances by P and
\* fetches again in every other case, known ids in the page or not.
C10_PagingRuleAsStated ==
  \A p \in Procs : kind[p] = "new" =>
    \A i \in 1..Len(log[p]) : ~log[p][i].error =>
      IF log[p][i].newInPage = 0 \/ log[p][i].count < PageSize
      THEN StoppedAfter(p, i)
      ELSE AdvancedAfter(p, i)

\* C10 amended: after a successful page the incremental sync stops if the page
\* held at least one already-known id or fewer than P records; only after a
\* full page of P unseen ids it advances by P and fetches again.
C10_PagingRule ==
  \A p \in Procs : kind[p] = "new" =>
    \A i \in 1..Len(log[p]) : ~log[p][i].error =>
      IF log[p][i].known > 0 \/ log[p][i].count < PageSize
      THEN StoppedAfter(p, i)
      ELSE AdvancedAfter(p, i)

C10_Witness ==
  \E p \in Procs :
    /\ kind[p] = "new" /\ pc[p] = "done" /\ Len(log[p]) = 2
    /\ log[p][1].known = 0 /\ log[p][1].count = PageSize
    /\ log[p][2].known > 0 /\ log[p][2].newInPage > 0 /\ log[p][2].count = PageSize

\* The ids the ledger held when the sync p started, for a sync that ran with
\* no other sync in flight.
StartIds(p) == Ids(trades) \ merged[p]

\* C11: an incremental sync that returns without gateway error, started on a
\* non-empty ledger holding every remote trade up to its newest record, with
\* no other sync in flight, leaves the ledger holding every trade the remote
\* history held when it started, whatever the exchange appended meanwhile.
C11_IncrementalComplete ==
  \A p \in Procs :
    (/\ pc[p] = "done" /\ kind[p] = "new" /\ ~errored[p] /\ solo[p]
     /\ StartIds(p) # {}
     /\ StartIds(p) = 1..Cardinality(StartIds(p)))
      => \A id \in 1..remote0[p] : id \in Ids(trades)

\* C12: at most one sync cycle is in flight at any time.
C12_SyncSerialized == Cardinality({p \in Procs : InFlight(p)}) <= 1

\* C13: whenever no sync is in flight, totalCount is the number of records
\* in the ledger, whatever the interleaving of the syncs that ran.
C13_TotalCountConsistent ==
  (\A p \in Procs : ~InFlight(p)) => totalCount = Len(trades)

C13_Witness ==
  /\ \A p \in Procs : pc[p] = "done" /\ ~solo[p] /\ merged[p] # {}
  /\ totalCount = Len(trades)

\* C14: no step removes a record from the ledger or replaces the record
\* stored under an id by a different value.
C14_LedgerMonotone ==
  [][\A i \in 1..Len(trades) : \E j \in 1..Len(trades') : trades'[j] = trades[i]]_vars

\* The sell of sellCase: its asset, the lots it met, its volume and its cost.
SoldAsset == getAssetFromPair(sellCase.trade.pair)
LotsBefore == LotsOf(sellCase.before, SoldAsset)
EntryBefore == IF SoldAsset \in DOMAIN sellCase.before THEN sellCase.before[SoldAsset] ELSE NewAsset
EntryAfter == sellCase.after[SoldAsset]
Logged == EntryAfter.completedTrades[Len(EntryAfter.completedTrades)]

\* The remaining of the lots older than the i-th.
RECURSIVE OlderRemaining(_, _)
OlderRemaining(lots, i) ==
  IF i <= 1 THEN 0 ELSE lots[i - 1].remaining + OlderRemaining(lots, i - 1)

\* What a sell of amount takes from the i-th lot when older lots go first.
Consumed(lots, amount, i) ==
  Min(lots[i].remaining, Max(0, amount - OlderRemaining(lots, i)))

RECURSIVE ConsumedCost(_, _, _)
ConsumedCost(lots, amount, i) ==
  IF i = 0 THEN 0
  ELSE Consumed(lots, amount, i) * lots[i].price + ConsumedCost(lots, amount, i - 1)

\* The lots a sell of amount leaves, oldest first, each with what is left of it.
RECURSIVE Leftover(_, _, _)
Leftover(lots, amount, i) ==
  IF i > Len(lots) THEN <<>>
  ELSE IF lots[i].remaining - Consumed(lots, amount, i) > 0
  THEN <<[lots[i] EXCEPT !.remaining = @ - Consumed(lots, amount, i)]>>
         \o Leftover(lots, amount, i + 1)
  ELSE Leftover(lots, amount, i + 1)

\* C15: a sell takes from the lots oldest first, a lot only once every older
\* lot is drained; amountMatched is the volume covered, costBasisUsed the sum
\* of portion x lot price, and the lots left are the undrained ones in order,
\* the partly consumed one in front with its reduced remaining.
C15_FifoMatching ==
  sellCase.done =>
    LET total == OlderRemaining(LotsBefore, Len(LotsBefore) + 1)
    IN /\ sellCase.match.amountMatched = Min(sellCase.trade.vol, total)
       /\ sellCase.match.costBasisUsed
            = ConsumedCost(LotsBefore, sellCase.trade.vol, Len(LotsBefore))
       /\ EntryAfter.lots = Leftover(LotsBefore, sellCase.trade.vol, 1)
       /\ Logged.amountMatched = sellCase.match.amountMatched

\* Lots [2 @ 2, 2 @ 3], sell 3: amountMatched 3, costBasisUsed 7, lots left [1 @ 3].
C15_Witness ==
  /\ sellCase.done
  /\ Len(LotsBefore) = 2
  /\ LotsBefore[1].remaining = 2 /\ LotsBefore[1].price = 2
  /\ LotsBefore[2].remaining = 2 /\ LotsBefore[2].price = 3
  /\ sellCase.trade.vol = 3
  /\ sellCase.match.amountMatched = 3 /\ sellCase.match.costBasisUsed = 7
  /\ Len(EntryAfter.lots) = 1
  /\ EntryAfter.lots[1].remaining = 1 /\ EntryAfter.lots[1].price = 3

\* C16: for a sell with amountMatched > 0 the logged pnl is
\* cost x amountMatched / amount - costBasisUsed and realizedPnL grows by
\* exactly that pnl.
C16_ProportionalPnL ==
  (sellCase.done /\ Logged.amountMatched > 0) =>
    /\ Logged.pnl * sellCase.trade.vol
         = sellCase.trade.cost * Logged.amountMatched
           - ConsumedCost(LotsBefore, sellCase.trade.vol, Len(LotsBefore)) * sellCase.trade.vol
    /\ EntryAfter.realizedPnL = EntryBefore.realizedPnL + Logged.pnl

C16_Witness ==
  /\ sellCase.done
  /\ Logged.amountMatched > 0 /\ Logged.amountMatched < sellCase.trade.vol
  /\ Logged.pnl # 0
  /\ EntryBefore.realizedPnL # 0

\* C17: a sell replayed when the asset has no lots gets amountMatched 0,
\* leaves realizedPnL as it was, adds its whole cost to totalReturned and
\* appends one CompletedTrade with pnl 0 and pnlPercent 0.
C17_ZeroCostBasis ==
  (sellCase.done /\ LotsBefore = <<>>) =>
    /\ Logged.amountMatched = 0
    /\ EntryAfter.realizedPnL = EntryBefore.realizedPnL
    /\ EntryAfter.totalReturned = EntryBefore.totalReturned + sellCase.trade.cost
    /\ Len(EntryAfter.completedTrades) = Len(EntryBefore.completedTrades) + 1
    /\ Logged.pnl = 0 /\ Logged.pnlPercent = 0
    /\ EntryAfter.lots = <<>>

C17_Witness ==
  /\ sellCase.done /\ LotsBefore = <<>>
  /\ SoldAsset \in DOMAIN sellCase.before
  /\ EntryBefore.realizedPnL # 0
  /\ EntryAfter.totalReturned > EntryBefore.totalReturned

\* The ledgers holding the records of ledger in any insertion order.
Reorderings(ledger) ==
  LET n == Len(ledger)
  IN {[i \in 1..n |-> ledger[f[i]]] :
        f \in {g \in [1..n -> 1..n] : \A i, j \in 1..n : g[i] = g[j] => i = j}}

\* C18: the cost basis built from the ledger is the one built from any ledger
\* holding the same records in another insertion order.
C18_OrderIndependent ==
  rebuilds >= 1 =>
    \A other \in Reorderings(trades) : BuildCostBasis(EmptyCostBasis, other) = costBasis

\* The cost the specification documents for the request of a caller.
DocumentedCost(c) == IF c = "trades" THEN 2 ELSE 1

\* C19: a caller sends its request (trade-history page, balance, open orders)
\* only when a reserve of its own has returned since its previous request,
\* having added exactly the documented cost; an order placement or
\* cancellation leaves the counter as it was.
C19_ReservePrecedesCall ==
  [][/\ \A c \in RateCallers :
          (rpc[c] # rpc'[c] /\ rpc'[c] = "idle")
            => (rpc[c] = "granted" /\ rsv[c].paid = DocumentedCost(c))
     /\ orderCalls' # orderCalls => (counter' = counter /\ rsv' = rsv)]_vars

C19_Witness ==
  /\ rpc["trades"] = "granted" /\ rsv["trades"].slept /\ rsv["trades"].paid = 2
  /\ rpc["balance"] = "granted" /\ rsv["balance"].paid = 1
  /\ orderCalls > 0

\* C20: with a single caller and time advancing, a reserve(cost) with
\* 0 <= cost <= maxCounter that has gone to sleep eventually returns.
C20_ReserveReturns ==
  \A c \in LiveCallers : (rpc[c] = "sleeping") ~> (rpc[c] = "granted")

C20_Witness ==
  \E c \in LiveCallers :
    rpc[c] = "granted" /\ rsv[c].slept /\ rsv[c].cost = maxCounter /\ rsv[c].paid = maxCounter

\* C21: a reserve whose cost exceeds maxCounter is never granted: its caller
\* is never past waitForRateLimit, and the counter has never been raised by
\* that cost, at any clock reading.
C21_OversizedNeverGranted ==
  \A c \in LiveCallers :
    rsv[c].cost > maxCounter => rpc[c] # "granted" /\ rsv[c].paid = 0

\* An oversized reserve asleep again after its timer fired past MaxClock, the
\* counter decayed to 0.
C21_Witness ==
  \E c \in LiveCallers :
    /\ rsv[c].cost = maxCounter + 1
    /\ rpc[c] = "sleeping"
    /\ counter = 0
    /\ lastDecay > MaxClock

\* C22 (as stated): once c / decayRate seconds have passed since a reserve
\* returned with the counter at c, and no further reserve has been made,
\* rateLimit.counter is 0.
C22_StoredCounterReachesZero ==
  ((\A c \in RateCallers : rpc[c] = "idle") /\ (now - lastDecay) * decayRate >= counter)
    => counter = 0

\* C22 (amended): a decay pass made c / decayRate seconds or more after the
\* pass that left the counter at c finds the counter at 0: the call that makes
\* it is granted with the counter at its own cost, or sleeps with the counter
\* at 0.
C22_DecayedToZeroAtNextPass ==
  [][\A c \in RateCallers :
       (/\ rpc[c] \in {"idle", "sleeping"}
        /\ rpc'[c] # rpc[c]
        /\ (now - lastDecay) * decayRate >= counter)
         => counter' = IF rpc'[c] = "granted" THEN rsv'[c].cost * Scale ELSE 0]_vars

\* Every reserve has returned, the counter was left above 0 and the time to
\* decay it has passed, with time left for a further call.
C22_Witness ==
  /\ \A c \in RateCallers : rpc[c] = "idle"
  /\ counter > 0
  /\ (now - lastDecay) * decayRate >= counter
  /\ now < MaxClock

\* The CompletedTrades of a cost-basis map, each named by its asset and its
\* place in the asset's list.
CompletedOf(cbAll) ==
  UNION {{<<a, i>> : i \in 1..Len(cbAll[a].completedTrades)} : a \in DOMAIN cbAll}

PnlOf(cbAll, x) == cbAll[x[1]].completedTrades[x[2]].pnl

\* C23: after a rebuild, winningTrades is the number of CompletedTrades with
\* pnl >= 0 and losingTrades the number of the others, over all assets, and
\* winningTrades + losingTrades = totalTrades = the number of sell records in
\* the ledger.
C23_AnalyticsPartition ==
  rebuilds >= 1 =>
    LET s == tradeAnalytics.summary
        done == CompletedOf(costBasis)
        nonNegative == {x \in done : PnlOf(costBasis, x) >= 0}
        sells == {i \in 1..Len(trades) : trades[i].type = "sell"}
    IN /\ s.winningTrades = Cardinality(nonNegative)
       /\ s.losingTrades = Cardinality(done \ nonNegative)
       /\ s.winningTrades + s.losingTrades = s.totalTrades
       /\ s.totalTrades = Cardinality(sells)

\* A rebuild over sells of two assets: one sold at a loss, one sold with no
\* cost basis and recorded with pnl 0.
C23_Witness ==
  /\ rebuilds >= 1
  /\ tradeAnalytics.summary.losingTrades >= 1
  /\ \E x \in CompletedOf(costBasis) :
       /\ costBasis[x[1]].completedTrades[x[2]].amountMatched = 0
       /\ PnlOf(costBasis, x) = 0
  /\ Cardinality(DOMAIN costBasis) = 2

\* Every CompletedTrade of a cost-basis map as a recentActivity entry.
ActivityEntries(cbAll) ==
  {[asset |-> x[1], pnl |-> PnlOf(cbAll, x),
    pnlPercent |-> cbAll[x[1]].completedTrades[x[2]].pnlPercent,
    sellTime |-> cbAll[x[1]].completedTrades[x[2]].sellTime,
    sellPrice |-> cbAll[x[1]].completedTrades[x[2]].sellPrice] : x \in CompletedOf(cbAll)}

\* How often an entry occurs in a sequence; among the CompletedTrades.
TimesIn(e, s) == Cardinality({i \in 1..Len(s) : s[i] = e})
TimesCompleted(e, cbAll) ==
  Cardinality({x \in CompletedOf(cbAll) :
                 /\ x[1] = e.asset
                 /\ cbAll[x[1]].completedTrades[x[2]].sellTime = e.sellTime
                 /\ cbAll[x[1]].completedTrades[x[2]].sellPrice = e.sellPrice
                 /\ cbAll[x[1]].completedTrades[x[2]].pnlPercent = e.pnlPercent
                 /\ PnlOf(cbAll, x) = e.pnl})

\* C24: after a rebuild, recentActivity holds min(DisplayCount, total)
\* CompletedTrades, in descending sellTime order, none more often than it was
\* completed and every CompletedTrade left out no later than each one held;
\* weeklyPnL of the summary is the sum of the pnl of exactly those entries and
\* weeklyWinRate the share of those with pnl >= 0.
C24_CountWindow ==
  rebuilds >= 1 =>
    LET ra == tradeAnalytics.recentActivity
        s == tradeAnalytics.summary
        n == Len(ra)
        total == Cardinality(CompletedOf(costBasis))
        wins == Cardinality({i \in 1..n : ra[i].pnl >= 0})
    IN /\ n = Min(DisplayCount, total)
       /\ \A i \in 1..n : ra[i] \in ActivityEntries(costBasis)
       /\ \A e \in ActivityEntries(costBasis) :
            /\ TimesIn(e, ra) <= TimesCompleted(e, costBasis)
            /\ TimesIn(e, ra) < TimesCompleted(e, costBasis)
                 => \A i \in 1..n : ra[i].sellTime >= e.sellTime
       /\ \A i \in 1..(n - 1) : ra[i].sellTime >= ra[i + 1].sellTime
       /\ s.weeklyPnL = SumPnL(ra)
       /\ s.weeklyWinRate = IF n > 0 THEN (wins * 100) \div n ELSE 0

\* A rebuild with more CompletedTrades than the window holds: an older sell
\* with a pnl other than 0 is left out, and the P&L of the window differs from
\* the P&L over all trades.
C24_Witness ==
  /\ rebuilds >= 1
  /\ Cardinality(CompletedOf(costBasis)) > DisplayCount
  /\ Len(tradeAnalytics.recentActivity) = DisplayCount
  /\ tradeAnalytics.summary.weeklyPnL # tradeAnalytics.summary.realizedPnL
  /\ \E e \in ActivityEntries(costBasis) :
       /\ e.pnl # 0
       /\ \A i \in 1..DisplayCount : tradeAnalytics.recentActivity[i].sellTime > e.sellTime

\* The CompletedTrades inside the 7-day window at the clock reading of the
\* rebuild.
WeekTrades ==
  SelectSeq(AllActivity(costBasis, AssetOrder(<<>>, SortByTime(trades))),
            LAMBDA t : InWeek(t.sellTime, now))

\* C25: after a rebuild, the summary holds the P&L and the win rate of the
\* 7-day window: some field of it is the sum of the pnl of the CompletedTrades
\* with sellTime >= now - 7 days, and some field is their win rate, whatever
\* the values of the count window are.
C25_BothWindowsSurfaced ==
  rebuilds >= 1 =>
    LET s == tradeAnalytics.summary
        n == Len(WeekTrades)
        wins == Cardinality({i \in 1..n : WeekTrades[i].pnl >= 0})
    IN /\ \E f \in DOMAIN s : s[f] = SumPnL(WeekTrades)
       /\ \E f \in DOMAIN s : s[f] = IF n > 0 THEN (wins * 100) \div n ELSE 0

\* The ledger as it stood when it held its first k records: the syncs of Spec
\* only append to it.
LedgerAt(k) == SubSeq(trades, 1, k)

\* C26: in every state between two callbacks, state.costBasis and
\* state.tradeAnalytics are the values loadAllState left, or the complete
\* result of one rebuild over the ledger as it stood at some time: never the
\* state inside a rebuild.
C26_NoHalfReplayedState ==
  \/ costBasis = EmptyCostBasis /\ tradeAnalytics = DefaultAnalytics
  \/ \E k \in 0..Len(trades) :
       LET sorted == SortByTime(LedgerAt(k))
           whole == Replay(EmptyCostBasis, sorted)
       IN /\ costBasis = whole
          /\ tradeAnalytics = BuildAnalytics(whole, AssetOrder(<<>>, sorted), now)

\* A sync in flight has merged records since the last rebuild while another
\* sync is in flight: the cost basis a reader sees is the rebuild over the
\* earlier ledger.
C26_Witness ==
  /\ \A p \in Procs : InFlight(p)
  /\ \E p \in Procs : merged[p] # {}
  /\ costBasis # EmptyCostBasis
  /\ costBasis # Replay(EmptyCostBasis, SortByTime(trades))
  /\ tradeAnalytics.summary.totalTrades > 0

\* C27: after a rebuild that was abandoned at a record that cannot be
\* replayed, every asset has in state.costBasis the entry it had before the
\* rebuild started (the one still on file: the abandoned rebuild saved nothing).
C27_AbandonedRebuildKeepsPrevious ==
  (rebuilds >= 1 /\ Throws(trades)) =>
    \A a \in DOMAIN fileCostBasis :
      a \in DOMAIN costBasis /\ costBasis[a] = fileCostBasis[a]

\* C28: a sync that ends while writing files fails still returns
\* state.fullTradeHistory to its caller, no error raised, with the ledger
\* holding every record it merged, totalCount its size when the sync added
\* records, and the cost basis and the analytics rebuilt from that ledger.
C28_SaveFailureNotFatal ==
  [][\A p \in Procs :
       (pc[p] = "call" /\ pc'[p] = "done" /\ ~fsOk)
         => /\ ret'[p] # Rejected
            /\ ret'[p] = [trades |-> trades', lastFetchTime |-> lastFetchTime',
                          totalCount |-> totalCount']
            /\ Ids(trades') = Ids(trades) \cup merged'[p]
            /\ (merged'[p] # {} => totalCount' = Len(trades'))
            /\ costBasis' = Replay(EmptyCostBasis, SortByTime(trades'))
            /\ tradeAnalytics' = BuildAnalytics(costBasis',
                                   AssetOrder(<<>>, SortByTime(trades')), now')
            /\ recentTrades' = updateRecentTrades(trades')]_vars

\* A sync has returned with records it merged while the disk was failing: the
\* files are behind the ledger and the cost basis in memory.
C28_Witness ==
  \E p \in Procs :
    /\ pc[p] = "done"
    /\ ~fsOk
    /\ merged[p] # {}
    /\ ret[p].trades = trades
    /\ fileTradeHistory.trades # trades
    /\ costBasis # EmptyCostBasis
    /\ fileCostBasis # costBasis
    /\ fileAnalytics # tradeAnalytics

\* C29: after loadAllState, each of the ledger, the cost basis and the
\* analytics is its empty default when its own file is missing or does not
\* parse, and the content of its own file otherwise, whatever the other files
\* hold; init has gone on past loadAllState.
C29_LoadFailureDefaults ==
  pc["startup"] # "boot" =>
    /\ [trades |-> trades, lastFetchTime |-> lastFetchTime, totalCount |-> totalCount]
         = IF fileTradeHistory \in {Missing, Corrupt}
           THEN [trades |-> <<>>, lastFetchTime |-> 0, totalCount |-> 0]
           ELSE fileTradeHistory
    /\ costBasis = IF fileCostBasis \in {Missing, Corrupt} THEN EmptyCostBasis
                   ELSE fileCostBasis
    /\ tradeAnalytics = IF fileAnalytics \in {Missing, Corrupt} THEN DefaultAnalytics
                        ELSE fileAnalytics

\* loadAllState has run on a ledger file that does not parse and a missing
\* analytics file, next to a cost-basis file an earlier run saved.
C29_Witness ==
  /\ pc["startup"] = "idle"
  /\ fileTradeHistory = Corrupt
  /\ fileAnalytics = Missing
  /\ fileCostBasis \notin {Missing, Corrupt, EmptyCostBasis}
  /\ trades = <<>> /\ totalCount = 0 /\ lastFetchTime = 0
  /\ costBasis = fileCostBasis

\* C30: in every state with no sync in flight, state.costBasis is the replay
\* from scratch of the ledger as it stands, whichever syncs ran and overlapped
\* before, with or without new records or a gateway error (before the first
\* sync the ledger and the cost basis are both empty).
C30_DerivedStateAtQuiescence ==
  (\A p \in Procs : ~InFlight(p))
    => costBasis = Replay(EmptyCostBasis, SortByTime(trades))

\* Both callbacks' syncs have returned after overlapping, one of them after a
\* gateway error; the cost basis holds completed trades.
C30_Witness ==
  /\ \A p \in Procs : pc[p] = "done"
  /\ \A p \in Procs : ~solo[p]
  /\ \E p \in Procs : errored[p]
  /\ \E p \in Procs : merged[p] # {}
  /\ CompletedOf(costBasis) # {}

\* C31: with a single caller, a reserve(cost) with cost <= maxCounter that
\* finds counter + cost > maxCounter goes to sleep for the least whole number
\* of seconds whose decay covers counter + cost - maxCounter, plus 500 ms, and
\* the step that ends that sleep grants it: no sleeping call sets a second
\* timer.
C31_SingleWaitSuffices ==
  [][\A c \in LiveCallers :
       /\ (rpc[c] = "idle" /\ rpc'[c] = "sleeping")
            => LET excess == counter' + rsv'[c].cost * Scale - maxCounter * Scale
                   ms == wake'[c] - now - 500
                   perSecond == decayRate * 1000
               IN /\ excess > 0
                  /\ ms % 1000 = 0
                  /\ (ms \div 1000) * perSecond >= excess
                  /\ ((ms \div 1000) - 1) * perSecond < excess
       /\ (rpc[c] = "sleeping" /\ rpc'[c] = "sleeping")
            => wake'[c] = wake[c] /\ lastDecay' = lastDecay /\ counter' = counter]_vars

\* A call that slept has been granted: the counter was raised by its cost on
\* the re-check after its one sleep.
C31_Witness ==
  \E c \in LiveCallers :
    /\ rpc[c] = "granted"
    /\ rsv[c].slept
    /\ rsv[c].cost = 2
    /\ rsv[c].paid = 2
    /\ counter <= maxCounter * Scale
    /\ counter > (maxCounter - 1) * Scale

\* C32: after a rebuild over records with volumes >= 0, every lot of every
\* asset has 0 <= remaining <= amount and amount >= 0, and every lot behind the
\* front of its queue has remaining = amount.
C32_LotInvariant ==
  rebuilds >= 1 =>
    \A a \in DOMAIN costBasis :
      LET lots == costBasis[a].lots
      IN \A i \in 1..Len(lots) :
           /\ lots[i].remaining >= 0
           /\ lots[i].remaining <= lots[i].amount
           /\ lots[i].amount >= 0
           /\ (i > 1 => lots[i].remaining = lots[i].amount)

\* A rebuild has left a queue whose front lot is partly consumed with an
\* untouched lot behind it.
C32_Witness ==
  /\ rebuilds >= 1
  /\ \E a \in DOMAIN costBasis :
       LET lots == costBasis[a].lots
       IN /\ Len(lots) = 2
          /\ lots[1].remaining < lots[1].amount
          /\ lots[2].remaining = lots[2].amount

\* The volume of the buy records of an asset in the ledger up to a time.
RECURSIVE BoughtUpTo(_, _, _)
BoughtUpTo(ledger, asset, time) ==
  IF ledger = <<>> THEN 0
  ELSE (IF /\ getAssetFromPair(Head(ledger).pair) = asset
           /\ Head(ledger).type = "buy"
           /\ Head(ledger).time <= time
        THEN Head(ledger).vol ELSE 0) + BoughtUpTo(Tail(ledger), asset, time)

\* The amount the first k CompletedTrades of an entry have matched.
RECURSIVE MatchedUpTo(_, _)
MatchedUpTo(completed, k) ==
  IF k = 0 THEN 0 ELSE completed[k].amountMatched + MatchedUpTo(completed, k - 1)

\* C33: after a rebuild of a ledger in any key order, the lots of every asset
\* are in non-decreasing order of time, the CompletedTrades likewise, and the
\* sells up to any one of them have together matched no more than the asset's
\* buys dated up to that sell: none has consumed a lot bought later.
C33_ReplayRespectsTime ==
  rebuilds >= 1 =>
    \A a \in DOMAIN costBasis :
      LET lots == costBasis[a].lots
          done == costBasis[a].completedTrades
      IN /\ \A i \in 1..(Len(lots) - 1) : lots[i].time <= lots[i + 1].time
         /\ \A i \in 1..(Len(done) - 1) : done[i].sellTime <= done[i + 1].sellTime
         /\ \A k \in 1..Len(done) :
              MatchedUpTo(done, k) <= BoughtUpTo(trades, a, done[k].sellTime)

\* A ledger whose key order is not its time order has been rebuilt: the queue
\* holds an older, partly consumed lot in front of a newer one.
C33_Witness ==
  /\ rebuilds >= 1
  /\ Len(trades) >= 2
  /\ trades[1].time > trades[2].time
  /\ \E a \in DOMAIN costBasis :
       LET lots == costBasis[a].lots
       IN /\ Len(lots) = 2
          /\ lots[1].time < lots[2].time
          /\ lots[1].remaining < lots[1].amount

\* C34: every CompletedTrade has 0 <= amountMatched <= amount, and the one a
\* replayed sell pushes has amountMatched < amount only when the asset's lot
\* queue is empty once the sell has finished matching.
C34_MatchedAmountBound ==
  sellCase.done =>
    /\ \A a \in DOMAIN sellCase.after :
         \A i \in 1..Len(sellCase.after[a].completedTrades) :
           LET t == sellCase.after[a].completedTrades[i]
           IN 0 <= t.amountMatched /\ t.amountMatched <= t.amount
    /\ Logged.amount = sellCase.trade.vol
    /\ Logged.amountMatched < Logged.amount
         => sellCase.match.lots = <<>> /\ EntryAfter.lots = <<>>

\* A sell of more than two lots held: both are consumed, the sell is matched in
\* part and the queue is empty.
C34_Witness ==
  /\ sellCase.done
  /\ Len(LotsBefore) = 2
  /\ Logged.amountMatched > 0
  /\ Logged.amountMatched < Logged.amount
  /\ EntryAfter.lots = <<>>

\* The sum of cost over the records of an asset of one type in the ledger.
RECURSIVE CostOfRecords(_, _, _)
CostOfRecords(ledger, asset, type) ==
  IF ledger = <<>> THEN 0
  ELSE (IF getAssetFromPair(Head(ledger).pair) = asset /\ Head(ledger).type = type
        THEN Head(ledger).cost ELSE 0) + CostOfRecords(Tail(ledger), asset, type)

\* The sum of pnl over the first k CompletedTrades of an entry.
RECURSIVE PnlUpTo(_, _)
PnlUpTo(completed, k) ==
  IF k = 0 THEN 0 ELSE completed[k].pnl + PnlUpTo(completed, k - 1)

\* The sum of realizedPnL over a set of assets.
RECURSIVE RealizedOver(_, _)
RealizedOver(cbAll, assets) ==
  IF assets = {} THEN 0
  ELSE LET a == CHOOSE x \in assets : TRUE
       IN cbAll[a].realizedPnL + RealizedOver(cbAll, assets \ {a})

\* C35: after a rebuild, for every asset realizedPnL is the sum of pnl over its
\* CompletedTrades, totalInvested the sum of cost over its buy records and
\* totalReturned the sum of cost over its sell records, and realizedPnL of the
\* summary is the sum of realizedPnL over the assets.
C35_AccountingTotals ==
  rebuilds >= 1 =>
    /\ \A a \in DOMAIN costBasis :
         /\ costBasis[a].realizedPnL
              = PnlUpTo(costBasis[a].completedTrades, Len(costBasis[a].completedTrades))
         /\ costBasis[a].totalInvested = CostOfRecords(trades, a, "buy")
         /\ costBasis[a].totalReturned = CostOfRecords(trades, a, "sell")
    /\ tradeAnalytics.summary.realizedPnL = RealizedOver(costBasis, DOMAIN costBasis)

\* A rebuild over a buy and a sell of each of two assets, one sold at a gain
\* and one at a loss.
C35_Witness ==
  /\ rebuilds >= 1
  /\ Cardinality(DOMAIN costBasis) = 2
  /\ \E a, b \in DOMAIN costBasis :
       /\ costBasis[a].realizedPnL > 0
       /\ costBasis[b].realizedPnL < 0
       /\ costBasis[a].totalInvested > 0 /\ costBasis[a].totalReturned > 0
       /\ costBasis[b].totalInvested > 0 /\ costBasis[b].totalReturned > 0
       /\ tradeAnalytics.summary.realizedPnL
            = costBasis[a].realizedPnL + costBasis[b].realizedPnL

\* The base asset of a pair of Pairs, read off its name.
BaseOf(pair) == IF pair = "XXBTZEUR" THEN "XXBT" ELSE "XETH"

\* The cost basis after the first k records of the sorted ledger are replayed.
ReplayedUpTo(k) == Replay(EmptyCostBasis, SubSeq(SortByTime(trades), 1, k))

\* C36: at every step of a rebuild, replaying a record of a pair changes the
\* entry of that pair's asset only: the entry of every other asset is as it
\* was before the record, and no entry of another asset appears.
C36_PerAssetIsolation ==
  rebuilds >= 1 =>
    /\ costBasis = ReplayedUpTo(Len(trades))
    /\ \A k \in 1..Len(trades) :
         LET x == BaseOf(SortByTime(trades)[k].pair)
             before == ReplayedUpTo(k - 1)
             after == ReplayedUpTo(k)
         IN /\ DOMAIN after = DOMAIN before \cup {x}
            /\ \A a \in DOMAIN before : a # x => after[a] = before[a]
            /\ after[x] # (IF x \in DOMAIN before THEN before[x] ELSE NewAsset)

\* A rebuild in which a sell of one asset found no lot of its own while the
\* other asset held an open lot: the sell matched nothing and that lot is
\* untouched.
C36_Witness ==
  /\ rebuilds >= 1
  /\ \E x, y \in DOMAIN costBasis :
       /\ x # y
       /\ Len(costBasis[x].completedTrades) = 1
       /\ costBasis[x].completedTrades[1].amountMatched = 0
       /\ Len(costBasis[y].lots) = 1
       /\ costBasis[y].lots[1].remaining = costBasis[y].lots[1].amount
       /\ costBasis[y].lots[1].time <= costBasis[x].completedTrades[1].sellTime

\* C37: the step that ends an incremental sync that inserted no record, after
\* a first page of known records or a gateway error, leaves the ledger,
\* totalCount, lastFetchTime and the ledger file as they were, and leaves
\* the cost basis and the analytics rebuilt from the ledger and saved.
C37_NothingNewKeepsMetadata ==
  [][\A p \in Procs :
       (pc[p] = "call" /\ pc'[p] = "done" /\ kind[p] = "new" /\ merged'[p] = {})
         => /\ trades' = trades
            /\ totalCount' = totalCount
            /\ lastFetchTime' = lastFetchTime
            /\ fileTradeHistory' = fileTradeHistory
            /\ costBasis' = Replay(EmptyCostBasis, SortByTime(trades))
            /\ tradeAnalytics' = BuildAnalytics(costBasis', AssetOrder(<<>>, SortByTime(trades)), now')
            /\ fileCostBasis' = costBasis'
            /\ fileAnalytics' = tradeAnalytics']_vars

\* An incremental sync has returned without inserting a record while the
\* backfill has merged pages and is still in flight: the cost basis is rebuilt
\* over the longer ledger, totalCount and the ledger file are behind it.
C37_Witness ==
  /\ pc["timer"] = "done"
  /\ kind["timer"] = "new"
  /\ merged["timer"] = {}
  /\ met["timer"] # {}
  /\ InFlight("startup")
  /\ costBasis # EmptyCostBasis
  /\ costBasis = Replay(EmptyCostBasis, SortByTime(trades))
  /\ totalCount # Len(trades)
  /\ fileTradeHistory.trades # trades

\* ---------------------------------------------------------------- C38
\* The cancel requests sent before the k-th request of the command.
CancelledBefore(k) ==
  {exec.requests[j].id : j \in {n \in 1..(k - 1) : exec.requests[n].op = "CancelOrder"}}

\* The orders of state.orders that were on the command's pair when the
\* command was taken up.
KnownOnPair == {exec.known[n].id : n \in {m \in 1..Len(exec.known) : OrderIsOn(exec.known[m].pair, exec.pair)}}

\* Those of them the filter of the BUY / SELL branch recognises.
RecognisedOnPair == {exec.known[n].id : n \in {m \in 1..Len(exec.known) : MatchesPair(exec.known[m].pair, exec.pair)}}

\* C38: when executeCommands handles a BUY or SELL command, every request for
\* the new order comes after a cancel request for each open order that
\* state.orders held on the command's pair, and an order whose cancel
\* succeeded is no longer in state.orders.
C38_CancelBeforePlace ==
  exec.pc \notin {"none", "idle"} =>
    /\ \A k \in 1..Len(exec.requests) :
         exec.requests[k].op = "AddOrder" => KnownOnPair \subseteq CancelledBefore(k)
    /\ exec.deleted \cap OrderIds(exec.orders) = {}

\* The same for the orders whose descr.pair is the pair key or one of its two
\* ZEUR / EUR rewritings: these are cancelled first.
ExecCancelsRecognisedFirst ==
  exec.pc \notin {"none", "idle"} =>
    /\ \A k \in 1..Len(exec.requests) :
         exec.requests[k].op = "AddOrder" => RecognisedOnPair \subseteq CancelledBefore(k)
    /\ exec.deleted \cap OrderIds(exec.orders) = {}

\* A command that met two recognised orders, cancelled one, failed to cancel
\* the other and then placed its order.
ExecRecognisedReached ==
  /\ exec.pc = "done" /\ exec.result = "success"
  /\ Len(exec.existingOrders) = 2
  /\ Cardinality(exec.deleted) = 1

====
